---- MODULE Spec2Model ----
(***************************************************************************)
(* A model of the storybook backend: the process-wide story cache          *)
(* (services/cache_service.py), the story and image services built on it   *)
(* (services/story_service.py, services/image_service.py), the data model  *)
(* (models/story.py) and the JSON export (services/export_service.py).     *)
(*                                                                         *)
(* Python objects are modelled with a heap: `heap[r]` is the state of the  *)
(* Story object with reference r, the dictionary _GLOBAL_STORIES maps a    *)
(* story id to a reference, and a request that fetched a story keeps the   *)
(* reference while it waits for the external model.  Strings that the code *)
(* takes apart (character names, story ids, cache keys) are sequences of   *)
(* one-character strings; the other strings are opaque.                    *)
(***************************************************************************)
EXTENDS Integers, Sequences, FiniteSets, TLC

VARIABLES
    disk,         \* STORY_FOLDER: file stem |-> content of <stem>.json
    images,       \* IMAGE_FOLDER: the set of image files written
    heap,         \* the Story objects, by reference; Free where no live object is
    stories,      \* _GLOBAL_STORIES: story id |-> reference of a Story object
    characters,   \* _GLOBAL_CHARACTERS: character key |-> character dict
    cacheLoaded,  \* _CACHE_LOADED
    instances,    \* the CacheService instances constructed so far, with their fields
    clock,        \* datetime.now()
    uuids,        \* the number of story ids uuid4() has handed out
    pc,           \* per request thread: where the request stands
    req,          \* per request thread: the locals of the running request
    last,         \* the last completed call: its name, arguments and result
    loads,        \* history: how many times _load_from_disk scanned the folder
    deleted,      \* history: ids deleted with result True and not stored since
    modelCalls,   \* history: requests sent to the external model so far
    output        \* the names of the files in OUTPUT_FOLDER

vars == <<disk, images, heap, stories, characters, cacheLoaded, instances, clock,
          uuids, pc, req, last, loads, deleted, modelCalls, output>>

(***************************************************************************)
(* Bounds of the model.                                                    *)
(***************************************************************************)
MaxObjects == 3
MaxClock == 1
MaxInstances == 2
MaxModelCalls == 3
MaxStories == 1

Threads == {"t1", "t2"}

(***************************************************************************)
(* Strings and dictionaries.                                               *)
(***************************************************************************)
None == "None"

Get(d, k, default) == IF k \in DOMAIN d THEN d[k] ELSE default

Put(f, k, v) == [x \in DOMAIN f \cup {k} |-> IF x = k THEN v ELSE f[x]]

Pop(f, k) == [x \in DOMAIN f \ {k} |-> f[x]]

EmptyDict == [x \in {} |-> None]

\* name.replace(' ', '_')
replace_space(s) == [i \in 1..Len(s) |-> IF s[i] = " " THEN "_" ELSE s[i]]

\* f"{story_id}_{name.replace(' ', '_')}"
char_key(story_id, name) == story_id \o <<"_">> \o replace_space(name)

\* uuid4(): the n-th story id handed out; ids are fixed-length strings
IdPool == << <<"1">>, <<"2">>, <<"3">>, <<"4">>, <<"5">> >>

\* the ids of the stories that exist before the process starts or that a
\* caller of the cache picks itself
StoryIds == {IdPool[i] : i \in 1..2}

\* str(uuid.uuid4()) in Story(): an id no story had before
uuid4 == IdPool[Cardinality(StoryIds) + uuids + 1]

\* the ids of the stories uuid4() has named so far
FreshIds == {IdPool[Cardinality(StoryIds) + i] : i \in 1..uuids}

Names == {<<"a">>, <<"b", " ", "c">>, <<"b", "_", "c">>}

(***************************************************************************)
(* models/story.py                                                         *)
(***************************************************************************)
Character(name, description, visual_description, role) ==
    [name |-> name, description |-> description,
     visual_description |-> visual_description, role |-> role,
     refined_description |-> None, character_id |-> "uuid"]

Character_to_dict(c) ==
    [name |-> c.name, description |-> c.description,
     visual_description |-> c.visual_description, role |-> c.role,
     refined_description |-> c.refined_description,
     character_id |-> c.character_id]

Scene(scene_number, title, text, image_prompt, characters_present) ==
    [scene_number |-> scene_number, title |-> title, text |-> text,
     image_prompt |-> image_prompt, characters_present |-> characters_present,
     image_url |-> None, scene_id |-> "uuid"]

Scene_to_dict(s) ==
    [scene_number |-> s.scene_number, title |-> s.title, text |-> s.text,
     image_prompt |-> s.image_prompt,
     characters_present |-> s.characters_present,
     image_url |-> s.image_url, scene_id |-> s.scene_id]

\* datetime.isoformat(): a string, no longer a datetime
isoformat(t) == [iso |-> t]

Story_to_dict(s) ==
    [title |-> s.title,
     characters |-> [i \in 1..Len(s.characters) |-> Character_to_dict(s.characters[i])],
     scenes |-> [i \in 1..Len(s.scenes) |-> Scene_to_dict(s.scenes[i])],
     style |-> s.style, age_group |-> s.age_group, genre |-> s.genre,
     total_planned_scenes |-> s.total_planned_scenes,
     story_id |-> s.story_id,
     created_at |-> isoformat(s.created_at)]

CharacterFields ==
    {"name", "description", "visual_description", "role",
     "refined_description", "character_id"}

SceneFields ==
    {"scene_number", "title", "text", "image_prompt", "characters_present",
     "image_url", "scene_id"}

\* Character(**c) raises TypeError on a missing required or an unknown keyword
Character_kwargs_ok(c) ==
    /\ {"name", "description", "visual_description"} \subseteq DOMAIN c
    /\ DOMAIN c \subseteq CharacterFields

Character_from_kwargs(c) ==
    [name |-> c.name, description |-> c.description,
     visual_description |-> c.visual_description,
     role |-> Get(c, "role", "supporting"),
     refined_description |-> Get(c, "refined_description", None),
     character_id |-> Get(c, "character_id", "uuid")]

Scene_kwargs_ok(s) ==
    /\ {"scene_number", "title", "text", "image_prompt", "characters_present"}
           \subseteq DOMAIN s
    /\ DOMAIN s \subseteq SceneFields

Scene_from_kwargs(s) ==
    [scene_number |-> s.scene_number, title |-> s.title, text |-> s.text,
     image_prompt |-> s.image_prompt,
     characters_present |-> s.characters_present,
     image_url |-> Get(s, "image_url", None),
     scene_id |-> Get(s, "scene_id", "uuid")]

from_dict_ok(data) ==
    /\ \A i \in 1..Len(Get(data, "characters", <<>>)) :
           Character_kwargs_ok(data.characters[i])
    /\ \A i \in 1..Len(Get(data, "scenes", <<>>)) :
           Scene_kwargs_ok(data.scenes[i])

\* Story.from_dict: created_at is not read from the dict, the dataclass
\* default (datetime.now) sets it; `uuid` is the id uuid4() would hand out
from_dict(data, now, uuid) ==
    [title |-> Get(data, "title", "Untitled"),
     characters |-> [i \in 1..Len(Get(data, "characters", <<>>)) |->
                        Character_from_kwargs(data.characters[i])],
     scenes |-> [i \in 1..Len(Get(data, "scenes", <<>>)) |->
                    Scene_from_kwargs(data.scenes[i])],
     style |-> Get(data, "style", "watercolor"),
     age_group |-> Get(data, "age_group", "7-10"),
     genre |-> Get(data, "genre", "adventure"),
     total_planned_scenes |-> Get(data, "total_planned_scenes", 5),
     story_id |-> Get(data, "story_id", uuid),
     created_at |-> now]

(***************************************************************************)
(* The values the model draws its inputs from.                             *)
(***************************************************************************)
Story(title, chars, scenes, planned, story_id, now) ==
    [title |-> title, characters |-> chars, scenes |-> scenes,
     style |-> "watercolor", age_group |-> "7-10", genre |-> "adventure",
     total_planned_scenes |-> planned, story_id |-> story_id,
     created_at |-> now]

CharA == Character(<<"a">>, "d", "v1", "main")
CharBC == Character(<<"b", " ", "c">>, "d", "v2", "supporting")
CharB_C == Character(<<"b", "_", "c">>, "d", "v3", "supporting")

CharLists == {<<>>, <<CharA>>, <<CharBC, CharB_C>>}

Scene1 == Scene(1, "S1", "x", "p", <<CharA.name>>)
Scene2 == Scene(2, "S2", "x", "p", <<CharA.name, CharBC.name>>)

\* the stories a caller of the cache may hand to store_story
StoryInputs(now) ==
    {Story("T", <<CharA>>, <<Scene1>>, 3, id, now) : id \in StoryIds}
    \cup {Story("U", <<CharBC, CharB_C>>, <<Scene1>>, 3, IdPool[1], now),
          Story("U", <<>>, <<Scene1>>, 3, IdPool[2], now)}

FileOf(story) == [ok |-> TRUE, data |-> Story_to_dict(story)]

\* a file json.load cannot parse (torn, truncated or foreign)
BadFile == [ok |-> FALSE]

\* the story folder as the process may find it at start
DiskImages ==
    { EmptyDict,
      Put(EmptyDict, IdPool[1],
          FileOf(Story("T", <<CharA, CharBC>>, <<Scene1, Scene2>>, 3, IdPool[1], 0))),
      Put(Put(EmptyDict, IdPool[1], BadFile),
          IdPool[2], FileOf(Story("U", <<CharBC>>, <<Scene1>>, 3, IdPool[2], 0))) }

(***************************************************************************)
(* The heap of Story objects.  An object no dictionary entry and no        *)
(* running request refers to is unreachable and its slot is free again.    *)
(***************************************************************************)
Free == [free |-> TRUE]

Refs == 1..MaxObjects

IsFree(h, r) == h[r] = Free

HasRoom(h) == \E r \in Refs : IsFree(h, r)

Alloc(h) == CHOOSE r \in Refs : IsFree(h, r) /\ \A q \in Refs : IsFree(h, q) => r <= q

Live(st, rq) ==
    {st[id] : id \in DOMAIN st}
    \cup {rq[t].ref : t \in {u \in Threads : "ref" \in DOMAIN rq[u]}}

Collect(h, st, rq) == [r \in Refs |-> IF r \in Live(st, rq) THEN h[r] ELSE Free]

(***************************************************************************)
(* services/cache_service.py                                               *)
(***************************************************************************)
\* char.to_dict() can be called unless an instance attribute of that name
\* (set by setattr) hides the method
to_dict_callable(c) == "to_dict" \notin DOMAIN c

\* store_story: the loop over the characters raises (TypeError, caught by
\* store_story's except) at a character whose to_dict is not callable
store_raises(story) ==
    \E i \in 1..Len(story.characters) : ~to_dict_callable(story.characters[i])

RECURSIVE store_characters(_, _, _)
\* store_story, the loop over story.characters: a later character with the
\* same key overwrites an earlier one; an exception ends the loop
store_characters(chars, story, i) ==
    IF i > Len(story.characters) THEN chars
    ELSE IF ~to_dict_callable(story.characters[i]) THEN chars
    ELSE store_characters(
             Put(chars, char_key(story.story_id, story.characters[i].name),
                 Character_to_dict(story.characters[i])),
             story, i + 1)

RECURSIVE remove_characters(_, _, _, _)
\* delete_story, the loop over story.characters: characters.pop(key, None)
remove_characters(chars, story_id, story, i) ==
    IF i > Len(story.characters) THEN chars
    ELSE remove_characters(
             Pop(chars, char_key(story_id, story.characters[i].name)),
             story_id, story, i + 1)

\* the outcomes of writing <story_id>.json: written, open() failed (the file
\* is as before), or the write failed after open() truncated the file
WriteOutcomes == {"ok", "open_failed", "torn"}

\* _save_to_disk: every exception is caught and logged, nothing is raised
_save_to_disk(d, story, outcome) ==
    CASE outcome = "ok" -> Put(d, story.story_id, FileOf(story))
      [] outcome = "open_failed" -> d
      [] outcome = "torn" -> Put(d, story.story_id, BadFile)

\* delete_story that forgets the backing file
remove_file_kept(d, story_id) == d

\* delete_story: if os.path.exists(filepath): os.remove(filepath)
remove_file(d, story_id) == Pop(d, story_id)

\* get_story: self.stories.get(story_id); 0 stands for None
get_story(story_id) == Get(stories, story_id, 0)

\* get_character: self.characters.get(char_key)
get_character(story_id, character_name) ==
    Get(characters, char_key(story_id, character_name), None)

\* list_stories: one summary per entry of self.stories
summary(story_id) ==
    LET s == heap[stories[story_id]] IN
    [id |-> story_id, title |-> s.title, num_scenes |-> Len(s.scenes),
     created_at |-> isoformat(s.created_at), genre |-> s.genre,
     age_group |-> s.age_group]

\* the summaries sorted by created_at, oldest first
list_stories_oldest_first ==
    LET ids == DOMAIN stories
        n == Cardinality(ids)
    IN {l \in [1..n -> {summary(id) : id \in ids}] :
           /\ \A id \in ids : \E i \in 1..n : l[i] = summary(id)
           /\ \A i, j \in 1..n : i < j => l[i].created_at.iso <= l[j].created_at.iso}

\* list_stories: the summaries sorted by created_at, newest first; the
\* order among equal timestamps is the dictionary's, which the model leaves open
list_stories_results ==
    LET ids == DOMAIN stories
        n == Cardinality(ids)
    IN {l \in [1..n -> {summary(id) : id \in ids}] :
           /\ \A id \in ids : \E i \in 1..n : l[i] = summary(id)
           /\ \A i, j \in 1..n : i < j => l[i].created_at.iso >= l[j].created_at.iso}

Orders(S) ==
    {o \in [1..Cardinality(S) -> S] : \A i, j \in 1..Cardinality(S) : i # j => o[i] # o[j]}

RECURSIVE load_files_skipping(_, _, _)
\* a loop that passes over a file it cannot parse and goes on
load_files_skipping(order, i, st) ==
    IF i > Len(order) THEN st
    ELSE LET f == disk[order[i]] IN
         IF ~f.ok \/ ~from_dict_ok(f.data) THEN load_files_skipping(order, i + 1, st)
         ELSE LET story == from_dict(f.data, clock, IdPool[uuids + 1])
                  h == Collect(st.heap, st.stories, req)
                  ref == Alloc(h)
              IN load_files_skipping(order, i + 1,
                     [heap |-> [h EXCEPT ![ref] = story],
                      stories |-> Put(st.stories, story.story_id, ref),
                      characters |-> store_characters(st.characters, story, 1)])

RECURSIVE load_files(_, _, _)
\* _load_from_disk, the loop over os.listdir(STORY_FOLDER) in the order
\* `order`: the first file that fails to parse ends the loop (the exception
\* is caught outside it)
load_files(order, i, st) ==
    IF i > Len(order) THEN st
    ELSE LET f == disk[order[i]] IN
         IF ~f.ok \/ ~from_dict_ok(f.data) THEN st
         ELSE LET story == from_dict(f.data, clock, IdPool[uuids + 1])
                  h == Collect(st.heap, st.stories, req)
                  ref == Alloc(h)
              IN load_files(order, i + 1,
                     [heap |-> [h EXCEPT ![ref] = story],
                      stories |-> Put(st.stories, story.story_id, ref),
                      characters |-> store_characters(st.characters, story, 1)])

\* __init__: self.stories = _GLOBAL_STORIES, self.characters = _GLOBAL_CHARACTERS
CacheService_fields == [stories |-> "_GLOBAL_STORIES", characters |-> "_GLOBAL_CHARACTERS"]

\* a constructor that scans the folder for every instance
should_load_always == TRUE

\* __init__: if not _CACHE_LOADED
should_load == ~cacheLoaded

\* CacheService(): the constructor, with the scan of the story folder
CacheService_init(order) ==
    /\ Len(instances) < MaxInstances
    /\ instances' = Append(instances, CacheService_fields)
    /\ IF should_load
       THEN LET st == load_files(order, 1,
                          [heap |-> heap, stories |-> stories, characters |-> characters])
            IN /\ heap' = Collect(st.heap, st.stories, req)
               /\ stories' = st.stories
               /\ characters' = st.characters
               /\ loads' = loads + 1
       ELSE UNCHANGED <<heap, stories, characters, loads>>
    /\ cacheLoaded' = TRUE
    /\ last' = [op |-> "CacheService"]
    /\ UNCHANGED <<disk, images, clock, uuids, pc, req, deleted, modelCalls, output>>

\* store_story(story) for the Story object with reference ref
store_story_effect(ref, story, outcome) ==
    /\ stories' = Put(stories, story.story_id, ref)
    /\ characters' = store_characters(characters, story, 1)
    /\ disk' = IF store_raises(story) THEN disk ELSE _save_to_disk(disk, story, outcome)
    /\ deleted' = deleted \ {story.story_id}

\* a caller builds a Story and hands it to store_story
store_story(story, outcome) ==
    /\ Len(instances) > 0
    /\ HasRoom(heap)
    /\ store_story_effect(Alloc(heap), story, outcome)
    /\ heap' = Collect([heap EXCEPT ![Alloc(heap)] = story], stories', req)
    /\ last' = [op |-> "store_story", story_id |-> story.story_id,
                ref |-> Alloc(heap), result |-> ~store_raises(story),
                written |-> outcome = "ok"]
    /\ UNCHANGED <<images, cacheLoaded, instances, clock, uuids, pc, req, loads, modelCalls,
                   output>>

\* delete_story(story_id); removed = FALSE is os.remove raising
delete_story(story_id, removed) ==
    /\ Len(instances) > 0
    /\ removed \/ story_id \in DOMAIN disk
    /\ IF story_id \in DOMAIN stories
       THEN /\ stories' = Pop(stories, story_id)
            /\ characters' = remove_characters(characters, story_id,
                                                heap[stories[story_id]], 1)
            /\ disk' = IF removed THEN remove_file(disk, story_id) ELSE disk
            /\ deleted' = IF removed THEN deleted \cup {story_id} ELSE deleted
            /\ last' = [op |-> "delete_story", story_id |-> story_id, result |-> removed]
       ELSE /\ removed
            /\ UNCHANGED <<stories, characters, disk, deleted>>
            /\ last' = [op |-> "delete_story", story_id |-> story_id, result |-> FALSE]
    /\ heap' = Collect(heap, stories', req)
    /\ UNCHANGED <<images, cacheLoaded, instances, clock, uuids, pc, req, loads, modelCalls,
                   output>>

\* the route GET /get-story/<story_id>
get_story_call(story_id) ==
    /\ Len(instances) > 0
    /\ last' = [op |-> "get_story", story_id |-> story_id, result |-> get_story(story_id)]
    /\ UNCHANGED <<disk, images, heap, stories, characters, cacheLoaded, instances,
                   clock, uuids, pc, req, loads, deleted, modelCalls, output>>

\* the route GET /stories
list_stories ==
    /\ Len(instances) > 0
    /\ \E l \in list_stories_results : last' = [op |-> "list_stories", result |-> l]
    /\ UNCHANGED <<disk, images, heap, stories, characters, cacheLoaded, instances,
                   clock, uuids, pc, req, loads, deleted, modelCalls, output>>

\* datetime.now() advances
Tick ==
    /\ clock < MaxClock
    /\ clock' = clock + 1
    /\ UNCHANGED <<disk, images, heap, stories, characters, cacheLoaded, instances,
                   uuids, pc, req, last, loads, deleted, modelCalls, output>>

\* something outside the process adds, replaces or removes a story file
ExternalDiskChange ==
    /\ \E d \in DiskImages : disk' = d
    /\ disk' # disk
    /\ last' = [op |-> "external"]
    /\ UNCHANGED <<images, heap, stories, characters, cacheLoaded, instances, clock,
                   uuids, pc, req, loads, deleted, modelCalls, output>>

Init ==
    /\ disk \in DiskImages
    /\ images = {}
    /\ heap = [r \in Refs |-> Free]
    /\ stories = EmptyDict
    /\ characters = EmptyDict
    /\ cacheLoaded = FALSE
    /\ instances = <<>>
    /\ clock = 0
    /\ uuids = 0
    /\ pc = [t \in Threads |-> "idle"]
    /\ req = [t \in Threads |-> [op |-> "none"]]
    /\ last = [op |-> "none"]
    /\ loads = 0
    /\ deleted = {}
    /\ modelCalls = 0
    /\ output = {}

(***************************************************************************)
(* The cache under a sequence of calls, each call running to its end.      *)
(***************************************************************************)
NextCache ==
    \/ \E o \in Orders(DOMAIN disk) : CacheService_init(o)
    \/ \E s \in StoryInputs(clock), w \in WriteOutcomes : store_story(s, w)
    \/ \E id \in StoryIds, r \in BOOLEAN : delete_story(id, r)
    \/ \E id \in StoryIds : get_story_call(id)
    \/ list_stories

SpecCache == Init /\ [][NextCache]_vars

(***************************************************************************)
(* The cache and the story folder, which other programs may change.        *)
(***************************************************************************)
NextLoad ==
    \/ \E o \in Orders(DOMAIN disk) : CacheService_init(o)
    \/ \E s \in StoryInputs(clock) : store_story(s, "ok")
    \/ \E id \in StoryIds : delete_story(id, TRUE)
    \/ \E id \in StoryIds : get_story_call(id)
    \/ list_stories
    \/ ExternalDiskChange

SpecLoad == Init /\ [][NextLoad]_vars

(***************************************************************************)
(* The cache while time passes between the calls.                          *)
(***************************************************************************)
NextList ==
    \/ \E o \in Orders(DOMAIN disk) : CacheService_init(o)
    \/ \E s \in StoryInputs(clock) : store_story(s, "ok")
    \/ \E id \in StoryIds : delete_story(id, TRUE)
    \/ list_stories
    \/ Tick

SpecList == Init /\ [][NextList]_vars

(***************************************************************************)
(* services/story_service.py and the external text model.  A request that  *)
(* calls the model waits for the reply while other requests run.           *)
(***************************************************************************)
\* a client that sends a request a second time
requests_with_retry == 1 + 1

\* generate_text and generate_image: one generate_content request per call,
\* in no loop
requests_per_call == 1

\* the requests validate_story_request accepts (num_scenes within 3..10)
StoryRequests ==
    {[age_group |-> "7-10", genre |-> "adventure", num_scenes |-> 3, art_style |-> "watercolor"],
     [age_group |-> "3-6", genre |-> "fantasy", num_scenes |-> 3, art_style |-> "cartoon"]}

CharDictA == [name |-> <<"a">>, description |-> "d", visual_description |-> "v1", role |-> "main"]

SceneDict(n) ==
    [scene_number |-> n, title |-> "S", text |-> "x", image_prompt |-> "p",
     characters_present |-> <<CharDictA.name>>]

\* what generate_json can give generate_story: a JSON object, a JSON value
\* that is no object, or an exception (the request failed, or the text is
\* not JSON after the code fence is stripped)
StoryReplies ==
    {[kind |-> "object",
      data |-> [title |-> "T", characters |-> <<CharDictA>>, scenes |-> <<SceneDict(1)>>,
                style |-> "ink"]],
     [kind |-> "object", data |-> [characters |-> <<>>]],
     [kind |-> "object",
      data |-> [title |-> "", characters |-> <<CharDictA>>,
                scenes |-> <<SceneDict(1), SceneDict(1)>>]],
     [kind |-> "object",
      data |-> [title |-> "T", characters |-> <<[description |-> "d"]>>,
                scenes |-> <<SceneDict(1)>>]],
     [kind |-> "list"],
     [kind |-> "error"]}

\* what the text model can answer generate_story: a failure of the request,
\* or a text made of an opening fence, a JSON value or something that is no
\* JSON, and a closing fence; "<fence>" stands for three backquotes
StoryAnswers ==
    {[kind |-> "failure"]}
    \cup {[kind |-> "text", open |-> "", json |-> r, close |-> ""] :
             r \in StoryReplies \ {[kind |-> "error"]}}
    \cup {[kind |-> "text", open |-> "", json |-> [kind |-> "garbage"], close |-> ""]}
    \cup {[kind |-> "text", open |-> f[1], close |-> f[2],
           json |-> [kind |-> "object",
                     data |-> [title |-> "T", characters |-> <<CharDictA>>,
                               scenes |-> <<SceneDict(1)>>, style |-> "ink"]]] :
             f \in {<<"<fence>json", "<fence>">>, <<"<fence>json", "">>, <<"<fence>", "<fence>">>}}

\* a parser that takes a text that is no JSON for an empty object
generate_json_lenient(answer) ==
    IF answer.kind = "failure" THEN [kind |-> "error"]
    ELSE IF answer.json.kind = "garbage" THEN [kind |-> "object", data |-> EmptyDict]
    ELSE answer.json

\* generate_json: the exception of generate_text is raised again; a leading
\* ```json and a trailing ``` are cut off and json.loads gets the rest
generate_json(answer) ==
    IF answer.kind = "failure" THEN [kind |-> "error"]
    ELSE LET open == IF answer.open = "<fence>json" THEN "" ELSE answer.open
             close == IF answer.close = "<fence>" THEN "" ELSE answer.close
         IN IF open # "" \/ close # "" \/ answer.json.kind = "garbage"
            THEN [kind |-> "error"]
            ELSE answer.json

\* _parse_story_data raises KeyError on a character or scene without a
\* required key
_parse_story_data_ok(data) ==
    /\ \A i \in 1..Len(Get(data, "characters", <<>>)) :
           {"name", "description", "visual_description"} \subseteq DOMAIN data.characters[i]
    /\ \A i \in 1..Len(Get(data, "scenes", <<>>)) :
           {"scene_number", "title", "text", "image_prompt"} \subseteq DOMAIN data.scenes[i]

_parse_story_data(data, story_id, now) ==
    [title |-> Get(data, "title", "Untitled Story"),
     characters |-> [i \in 1..Len(Get(data, "characters", <<>>)) |->
                        Character(data.characters[i].name,
                                  data.characters[i].description,
                                  data.characters[i].visual_description,
                                  Get(data.characters[i], "role", "supporting"))],
     scenes |-> [i \in 1..Len(Get(data, "scenes", <<>>)) |->
                    Scene(data.scenes[i].scene_number, data.scenes[i].title,
                          data.scenes[i].text, data.scenes[i].image_prompt,
                          Get(data.scenes[i], "characters_present", <<>>))],
     style |-> Get(data, "style", "watercolor"),
     age_group |-> "7-10", genre |-> "adventure", total_planned_scenes |-> 5,
     story_id |-> story_id, created_at |-> now]

\* generate_story, after parsing: the request's tags replace the parsed ones
with_request(story, r) ==
    [story EXCEPT !.age_group = r.age_group, !.genre = r.genre,
                  !.style = r.art_style, !.total_planned_scenes = r.num_scenes]

\* POST /generate-story with a valid request: generate_story up to the
\* request it sends to the text model
generate_story_call(t, r) ==
    /\ pc[t] = "idle"
    /\ Len(instances) > 0
    /\ modelCalls < MaxModelCalls
    /\ uuids < MaxStories
    /\ modelCalls' = modelCalls + requests_per_call
    /\ pc' = [pc EXCEPT ![t] = "story_wait"]
    /\ req' = [req EXCEPT ![t] = [op |-> "generate_story", request |-> r]]
    /\ UNCHANGED <<disk, images, heap, stories, characters, cacheLoaded, instances,
                   clock, uuids, last, loads, deleted, output>>

\* generate_story from the model's reply on: parse, tag, store, return; an
\* exception is logged and raised again, and the route answers 500
generate_story_return(t, answer, outcome) ==
    /\ pc[t] = "story_wait"
    /\ pc' = [pc EXCEPT ![t] = "idle"]
    /\ req' = [req EXCEPT ![t] = [op |-> "none"]]
    /\ LET reply == generate_json(answer) IN
       IF reply.kind = "object" /\ _parse_story_data_ok(reply.data)
       THEN LET story == with_request(_parse_story_data(reply.data, uuid4, clock),
                                      req[t].request)
            IN /\ HasRoom(heap)
               /\ uuids' = uuids + 1
               /\ store_story_effect(Alloc(heap), story, outcome)
               /\ heap' = Collect([heap EXCEPT ![Alloc(heap)] = story], stories', req')
               /\ last' = [op |-> "generate_story", raised |-> FALSE, status |-> 200,
                           story_id |-> story.story_id, ref |-> Alloc(heap)]
       ELSE /\ outcome = "ok"
            /\ last' = [op |-> "generate_story", raised |-> TRUE, status |-> 500]
            /\ UNCHANGED <<disk, heap, stories, characters, uuids, deleted>>
    /\ UNCHANGED <<images, cacheLoaded, instances, clock, loads, modelCalls, output>>

\* what generate_json can give generate_scene_from_choice
SceneReplies ==
    {[kind |-> "object",
      data |-> [title |-> "N", text |-> "x", image_prompt |-> "p",
                characters_present |-> <<CharDictA.name>>]],
     [kind |-> "object",
      data |-> [scene_number |-> 1, title |-> "N", content |-> "c"]],
     [kind |-> "empty"],
     [kind |-> "list"],
     [kind |-> "error"]}

\* a default that repeats the number of the last scene
default_scene_number_stale(current_scene_count) == current_scene_count

\* the number of a scene whose reply names none
default_scene_number(current_scene_count) == current_scene_count + 1

\* generate_scene_from_choice: Scene(...) from scene_data
new_scene(scene_data, current_scene_count) ==
    Scene(Get(scene_data, "scene_number", default_scene_number(current_scene_count)),
          Get(scene_data, "title", ""),
          Get(scene_data, "text", Get(scene_data, "content", "")),
          Get(scene_data, "image_prompt", ""),
          Get(scene_data, "characters_present", <<>>))

\* a test that takes every parsed reply but null for a scene
scene_data_not_None(reply) == reply.kind \in {"object", "empty"}

\* generate_scene_from_choice: if scene_data (an empty dict or list is falsy;
\* a non-empty list has no .get, and the AttributeError is caught)
scene_data_truthy(reply) == reply.kind = "object"

\* the body of the route's answer when the service returned None
FailedToGenerateScene == "Failed to generate scene"

\* POST /generate-scene-from-choice for a story that is not cached:
\* generate_scene_from_choice returns None and the route answers 500
generate_scene_not_found(t, story_id) ==
    /\ pc[t] = "idle"
    /\ Len(instances) > 0
    /\ get_story(story_id) = 0
    /\ last' = [op |-> "generate_scene_from_choice", story_id |-> story_id,
                ok |-> FALSE, status |-> 500, error |-> FailedToGenerateScene]
    /\ UNCHANGED <<disk, images, heap, stories, characters, cacheLoaded, instances,
                   clock, uuids, pc, req, loads, deleted, modelCalls, output>>

\* generate_scene_from_choice for a cached story, up to the request it
\* sends to the text model: the story is fetched and its scenes are counted
generate_scene_call(t, story_id) ==
    /\ pc[t] = "idle"
    /\ Len(instances) > 0
    /\ get_story(story_id) # 0
    /\ modelCalls < MaxModelCalls
    /\ modelCalls' = modelCalls + requests_per_call
    /\ pc' = [pc EXCEPT ![t] = "scene_wait"]
    /\ LET story == heap[get_story(story_id)] IN
       req' = [req EXCEPT ![t] =
                  [op |-> "generate_scene_from_choice", story_id |-> story_id,
                   ref |-> get_story(story_id),
                   current_scene_count |-> Len(story.scenes),
                   remaining_scenes |-> story.total_planned_scenes - Len(story.scenes)]]
    /\ UNCHANGED <<disk, images, heap, stories, characters, cacheLoaded, instances,
                   clock, uuids, last, loads, deleted, output>>

\* generate_scene_from_choice from the model's reply on: the new scene is
\* appended to the fetched Story object, which is stored; an exception or
\* an empty reply gives None
generate_scene_return(t, reply, outcome) ==
    /\ pc[t] = "scene_wait"
    /\ pc' = [pc EXCEPT ![t] = "idle"]
    /\ req' = [req EXCEPT ![t] = [op |-> "none"]]
    /\ IF scene_data_truthy(reply)
       THEN LET ref == req[t].ref
                scene_data == IF reply.kind = "object" THEN reply.data ELSE EmptyDict
                scene == new_scene(scene_data, req[t].current_scene_count)
                story == [heap[ref] EXCEPT !.scenes = Append(@, scene)]
            IN /\ store_story_effect(ref, story, outcome)
               /\ heap' = Collect([heap EXCEPT ![ref] = story], stories', req')
               /\ last' = [op |-> "generate_scene_from_choice",
                           story_id |-> req[t].story_id, ok |-> TRUE, status |-> 200,
                           ref |-> ref, scene |-> Scene_to_dict(scene),
                           is_final |-> req[t].remaining_scenes = 1,
                           scenes_remaining |-> req[t].remaining_scenes - 1,
                           current_scene_count |-> req[t].current_scene_count,
                           numbered |-> "scene_number" \in DOMAIN scene_data]
       ELSE /\ outcome = "ok"
            /\ heap' = Collect(heap, stories, req')
            /\ last' = [op |-> "generate_scene_from_choice",
                        story_id |-> req[t].story_id, ok |-> FALSE, status |-> 500,
                        error |-> FailedToGenerateScene]
            /\ UNCHANGED <<disk, stories, characters, deleted>>
    /\ UNCHANGED <<images, cacheLoaded, instances, clock, uuids, loads, modelCalls,
                   output>>

\* the updates PUT /update-character is called with: fields of a character,
\* keys that are no attribute of a Character, and names the class gives
\* every Character (a method, the class itself)
CharacterUpdates ==
    {[visual_description |-> "v9"],
     [name |-> <<"z">>, role |-> "main"],
     [story_id |-> <<"9">>, colour |-> "red"],
     [to_dict |-> "x"],
     [__class__ |-> "x"]}

\* the character names PUT /update-character is called with
UpdateNames == {<<"a">>, <<"z">>}

\* what hasattr finds on every Character besides its fields
ClassAttributes == {"to_dict", "__class__"}

\* update_character: hasattr(char, key)
hasattr(char, key) == key \in DOMAIN char \/ key \in ClassAttributes

\* setattr(char, '__class__', value) raises TypeError for a value that is no
\* class, and a JSON value never is one
setattr_raises(char, updates) ==
    \E k \in DOMAIN updates : hasattr(char, k) /\ k = "__class__"

\* update_character: setattr for every key the character has as attribute;
\* the record is the instance's __dict__
apply_updates(char, updates) ==
    [k \in DOMAIN char \cup {x \in DOMAIN updates : hasattr(char, x)} |->
        IF k \in DOMAIN updates THEN updates[k] ELSE char[k]]

\* an update that sets the keys on the story as well as on the character
updated_story_and_fields(story, c, updates) ==
    [k \in DOMAIN story |->
        IF k = "characters"
        THEN [story.characters EXCEPT ![c] = apply_updates(@, updates)]
        ELSE IF k \in DOMAIN updates THEN updates[k] ELSE story[k]]

\* update_character: the attributes are set on the character found in
\* story.characters, and on nothing else of the story
updated_story(story, c, updates) ==
    [story EXCEPT !.characters[c] = apply_updates(@, updates)]

\* update_character: False for a missing story or character; else the first
\* character with the name is updated and the story is stored
update_character(story_id, character_name, updates, outcome) ==
    /\ Len(instances) > 0
    /\ LET ref == get_story(story_id)
           c == IF ref = 0 THEN 0
                ELSE IF \E i \in 1..Len(heap[ref].characters) :
                           heap[ref].characters[i].name = character_name
                THEN CHOOSE i \in 1..Len(heap[ref].characters) :
                        /\ heap[ref].characters[i].name = character_name
                        /\ \A j \in 1..(i - 1) :
                              heap[ref].characters[j].name # character_name
                ELSE 0
       IN IF c = 0
          THEN /\ outcome = "ok"
               /\ last' = [op |-> "update_character", story_id |-> story_id,
                           raised |-> FALSE, result |-> FALSE, status |-> 400]
               /\ UNCHANGED <<disk, heap, stories, characters, deleted>>
          ELSE IF setattr_raises(heap[ref].characters[c], updates)
          THEN \* the TypeError leaves update_character; the inputs raise on
               \* their only key, so no attribute was set before it
               /\ outcome = "ok"
               /\ DOMAIN updates = {"__class__"}
               /\ last' = [op |-> "update_character", story_id |-> story_id,
                           raised |-> TRUE, result |-> FALSE, status |-> 500]
               /\ UNCHANGED <<disk, heap, stories, characters, deleted>>
          ELSE LET story == updated_story(heap[ref], c, updates)
               IN /\ store_story_effect(ref, story, outcome)
                  /\ heap' = Collect([heap EXCEPT ![ref] = story], stories', req)
                  /\ last' = [op |-> "update_character", story_id |-> story_id,
                              raised |-> FALSE, result |-> TRUE, status |-> 200,
                              ref |-> ref,
                              character |-> c]
    /\ UNCHANGED <<images, cacheLoaded, instances, clock, uuids, pc, req, loads,
                   modelCalls, output>>

\* the choices generate_story_choices falls back to
default_choices ==
    <<[title |-> "Original Path", description |-> "Continue with the main storyline",
       icon |-> "book", type |-> "original"],
      [title |-> "Magical Twist", description |-> "Add a magical element to the story",
       icon |-> "sparkles", type |-> "magical"],
      [title |-> "Surprise Turn", description |-> "Introduce an unexpected twist",
       icon |-> "masks", type |-> "surprise"],
      [title |-> "Adventure Path", description |-> "Take the story on an adventure",
       icon |-> "rocket", type |-> "adventure"]>>

\* what generate_json can give generate_story_choices: a JSON list of any
\* length, a JSON value that is no list, or an exception
ChoiceReplies ==
    {[kind |-> "list",
      value |-> [i \in 1..4 |-> [title |-> "C", description |-> "d", icon |-> "i",
                                 type |-> "original", preview |-> "p"]]],
     [kind |-> "list", value |-> <<[title |-> "only one"]>>],
     [kind |-> "object"],
     [kind |-> "error"]}

\* the truthy values of currentScene that POST /story-choices hands to
\* generate_story_choices: a JSON object, or a JSON string
CurrentScenes ==
    {[t |-> "dict", v |-> [content |-> "c"]],
     [t |-> "dict", v |-> [title |-> "S1"]],
     [t |-> "str", s |-> "the scene text"]}

\* generate_story_choices with a current scene that is no dict: the prompt
\* is built before the try, current_scene.get raises AttributeError, and
\* the route's handler answers 500
generate_story_choices_no_dict(t, current_scene) ==
    /\ pc[t] = "idle"
    /\ Len(instances) > 0
    /\ current_scene.t # "dict"
    /\ last' = [op |-> "generate_story_choices", raised |-> TRUE, status |-> 500,
                choices |-> <<>>]
    /\ UNCHANGED <<disk, images, heap, stories, characters, cacheLoaded, instances,
                   clock, uuids, pc, req, loads, deleted, modelCalls, output>>

\* POST /story-choices with a current scene that is a dict:
\* generate_story_choices up to the request it sends to the text model
generate_story_choices_call(t) ==
    /\ pc[t] = "idle"
    /\ Len(instances) > 0
    /\ modelCalls < MaxModelCalls
    /\ modelCalls' = modelCalls + requests_per_call
    /\ pc' = [pc EXCEPT ![t] = "choices_wait"]
    /\ req' = [req EXCEPT ![t] = [op |-> "generate_story_choices"]]
    /\ UNCHANGED <<disk, images, heap, stories, characters, cacheLoaded, instances,
                   clock, uuids, last, loads, deleted, output>>

\* generate_story_choices from the model's reply on: a list is returned as
\* it is, another value gives the empty list, an exception the default
\* choices
generate_story_choices_return(t, reply) ==
    /\ pc[t] = "choices_wait"
    /\ pc' = [pc EXCEPT ![t] = "idle"]
    /\ req' = [req EXCEPT ![t] = [op |-> "none"]]
    /\ last' = [op |-> "generate_story_choices", raised |-> FALSE, status |-> 200,
                choices |-> IF reply.kind = "list" THEN reply.value
                            ELSE IF reply.kind = "error" THEN default_choices
                            ELSE <<>>]
    /\ UNCHANGED <<disk, images, heap, stories, characters, cacheLoaded, instances,
                   clock, uuids, loads, deleted, modelCalls, output>>

AllIds == StoryIds \cup FreshIds

\* the process once the route modules are imported: routes/story_routes.py
\* builds its StoryService, whose CacheService scans the story folder
InitServices ==
    /\ disk \in DiskImages
    /\ images = {}
    /\ clock = 0
    /\ uuids = 0
    /\ pc = [t \in Threads |-> "idle"]
    /\ req = [t \in Threads |-> [op |-> "none"]]
    /\ \E o \in Orders(DOMAIN disk) :
          LET st == load_files(o, 1, [heap |-> [r \in Refs |-> Free],
                                      stories |-> EmptyDict, characters |-> EmptyDict])
          IN /\ heap = st.heap
             /\ stories = st.stories
             /\ characters = st.characters
    /\ cacheLoaded = TRUE
    /\ instances = <<CacheService_fields>>
    /\ last = [op |-> "CacheService"]
    /\ loads = 1
    /\ deleted = {}
    /\ modelCalls = 0
    /\ output = {}

Next ==
    \/ \E t \in Threads, r \in StoryRequests : generate_story_call(t, r)
    \/ \E t \in Threads, a \in StoryAnswers : generate_story_return(t, a, "ok")
    \/ \E t \in Threads, id \in AllIds : generate_scene_not_found(t, id)
    \/ \E t \in Threads, id \in AllIds : generate_scene_call(t, id)
    \/ \E t \in Threads, r \in SceneReplies : generate_scene_return(t, r, "ok")
    \/ \E id \in AllIds : delete_story(id, TRUE)

Spec == InitServices /\ [][Next]_vars

(***************************************************************************)
(* routes/story_routes.py: POST /generate-story from the request body on,  *)
(* with utils/validators.py and utils/error_handler.py.  A JSON value is a *)
(* record with its type t and its value v; for a string, len is the length *)
(* of the stripped string.                                                 *)
(***************************************************************************)
\* how a call ends: with an exception or with a value
Raise(exc, msg) == [raised |-> TRUE, exc |-> exc, msg |-> msg]

Return(value) == [raised |-> FALSE, value |-> value]

JStr(v, len) == [t |-> "str", v |-> v, len |-> len]

JNum(v) == [t |-> "int", v |-> v]

JNull == [t |-> "null"]

\* bool(x) of a JSON value
Truthy(x) ==
    CASE x.t = "str" -> x.v # ""
      [] x.t = "int" -> x.v # 0
      [] OTHER -> FALSE

\* the bodies a client may post: JSON objects, the JSON value null, and a
\* body that is no JSON
StoryBodies ==
    {[kind |-> "object",
      data |-> [prompt |-> JStr("a prompt long enough", 20), age_group |-> JStr("3-6", 3),
                genre |-> JStr("fantasy", 7), num_scenes |-> JNum(3),
                art_style |-> JStr("cartoon", 7)]],
     [kind |-> "object", data |-> [prompt |-> JStr("a prompt long enough", 20)]],
     [kind |-> "object", data |-> [genre |-> JStr("fantasy", 7)]],
     [kind |-> "object", data |-> [prompt |-> JStr("short", 5), genre |-> JStr("opera", 5)]],
     [kind |-> "object",
      data |-> [prompt |-> JStr("a prompt long enough", 20), num_scenes |-> JNum(11)]],
     [kind |-> "object",
      data |-> [prompt |-> JStr("a prompt long enough", 20), num_scenes |-> JStr("many", 4)]],
     [kind |-> "object", data |-> [prompt |-> JNum(1234567890)]],
     [kind |-> "null"],
     [kind |-> "not_json"]}

\* validate_story_request: the check of one optional field against its list
one_of(data, key, valid, msg) ==
    LET x == Get(data, key, JNull)
    IN IF Truthy(x) /\ ~(x.t = "str" /\ x.v \in valid) THEN <<msg>> ELSE <<>>

\* validate_story_request: the list of errors (the empty list stands for
\* the None it returns then), or AttributeError for a truthy prompt that is
\* no string
validate_story_request(data) ==
    LET prompt == Get(data, "prompt", JNull)
        num_scenes == Get(data, "num_scenes", JNull)
        errors ==
            (IF ~Truthy(prompt) THEN <<"'prompt' is required">>
             ELSE IF prompt.len < 10
                  THEN <<"'prompt' must be at least 10 characters long">>
                  ELSE <<>>)
            \o one_of(data, "age_group", {"3-6", "7-10", "11-14", "15+"},
                      "Invalid age_group")
            \o one_of(data, "genre",
                      {"adventure", "fantasy", "science-fiction", "mystery", "comedy",
                       "educational"}, "Invalid genre")
            \o (IF num_scenes.t = "null" THEN <<>>
                ELSE IF num_scenes.t = "int"
                     THEN IF num_scenes.v < 3 \/ num_scenes.v > 10
                          THEN <<"num_scenes must be between 3 and 10">> ELSE <<>>
                     ELSE <<"num_scenes must be a number">>)
            \o one_of(data, "art_style",
                      {"watercolor", "cartoon", "pixel-art", "anime", "realistic", "sketch"},
                      "Invalid art_style")
    IN IF Truthy(prompt) /\ prompt.t # "str"
       THEN Raise("AttributeError", "object has no attribute 'strip'")
       ELSE Return(errors)

\* handle_api_error: the answer to an exception that leaves the route body
handle_api_error(e) ==
    IF e.exc \in {"APIError", "ValidationError"}
    THEN [status |-> e.status_code, body |-> [error |-> e.msg]]
    ELSE [status |-> 500,
          body |-> [error |-> "An unexpected error occurred", message |-> e.msg]]

\* the route generate_story up to the call of the service: the exception or
\* the answer it ends with, or no answer when it goes on
generate_story_checks(body) ==
    IF body.kind = "not_json" THEN Raise("BadRequest", "Failed to decode JSON object")
    ELSE IF body.kind = "null"
    THEN Raise("AttributeError", "'NoneType' object has no attribute 'get'")
    ELSE LET errors == validate_story_request(body.data)
         IN IF errors.raised THEN errors
            ELSE IF errors.value # <<>>
            THEN Return([answered |-> TRUE, status |-> 400,
                         body |-> [error |-> "Validation failed", details |-> errors.value]])
            ELSE Return([answered |-> FALSE])

\* the route generate_story: the arguments of story_service.generate_story
generate_story_arguments(data) ==
    [age_group |-> Get(data, "age_group", JStr("7-10", 4)).v,
     genre |-> Get(data, "genre", JStr("adventure", 9)).v,
     num_scenes |-> Get(data, "num_scenes", JNum(5)).v,
     art_style |-> Get(data, "art_style", JStr("watercolor", 10)).v]

\* POST /generate-story: the route, which answers by itself or calls
\* generate_story
post_generate_story(t, body) ==
    LET checks == generate_story_checks(body)
    IN IF checks.raised \/ checks.value.answered
       THEN /\ pc[t] = "idle"
            /\ Len(instances) > 0
            /\ last' = [op |-> "POST /generate-story", body |-> body, raised |-> FALSE,
                        response |-> IF checks.raised THEN handle_api_error(checks)
                                     ELSE [status |-> checks.value.status,
                                           body |-> checks.value.body]]
            /\ UNCHANGED <<disk, images, heap, stories, characters, cacheLoaded,
                           instances, clock, uuids, pc, req, loads, deleted, modelCalls,
                           output>>
       ELSE generate_story_call(t, generate_story_arguments(body.data))

NextRoutes ==
    \/ \E t \in Threads, body \in StoryBodies : post_generate_story(t, body)
    \/ \E t \in Threads, a \in StoryAnswers : generate_story_return(t, a, "ok")
    \/ \E id \in AllIds : delete_story(id, TRUE)

SpecRoutes == InitServices /\ [][NextRoutes]_vars

(***************************************************************************)
(* services/image_service.py and the external image model.                 *)
(***************************************************************************)
RECURSIVE join(_, _)
\* sep.join(parts)
join(parts, sep) ==
    IF parts = <<>> THEN ""
    ELSE IF Len(parts) = 1 THEN parts[1]
    ELSE parts[1] \o sep \o join(Tail(parts), sep)

ImageResponse(image_url, scene_number, success, error) ==
    [image_url |-> image_url, scene_number |-> scene_number,
     success |-> success, error |-> error]

\* the requests validate_image_request accepts
ImageRequests ==
    {[story_id |-> IdPool[1], scene_number |-> 2, custom_prompt |-> None,
      aspect_ratio |-> "16:9"],
     [story_id |-> IdPool[2], scene_number |-> 1, custom_prompt |-> None,
      aspect_ratio |-> "16:9"],
     [story_id |-> IdPool[2], scene_number |-> 3, custom_prompt |-> None,
      aspect_ratio |-> "16:9"],
     [story_id |-> IdPool[1], scene_number |-> 2, custom_prompt |-> "a custom prompt",
      aspect_ratio |-> "1:1"]}

\* a lookup that falls back to the first scene
_get_scene_or_first(story, scene_number) ==
    IF \E i \in 1..Len(story.scenes) : story.scenes[i].scene_number = scene_number
    THEN CHOOSE i \in 1..Len(story.scenes) :
             /\ story.scenes[i].scene_number = scene_number
             /\ \A j \in 1..(i - 1) : story.scenes[j].scene_number # scene_number
    ELSE IF story.scenes = <<>> THEN 0 ELSE 1

\* _get_scene: the position of the first scene with the number, 0 for None
_get_scene(story, scene_number) ==
    IF \E i \in 1..Len(story.scenes) : story.scenes[i].scene_number = scene_number
    THEN CHOOSE i \in 1..Len(story.scenes) :
             /\ story.scenes[i].scene_number = scene_number
             /\ \A j \in 1..(i - 1) : story.scenes[j].scene_number # scene_number
    ELSE 0

\* _get_character: the position of the first character with the name, 0 for None
_get_character(story, character_name) ==
    IF \E i \in 1..Len(story.characters) : story.characters[i].name = character_name
    THEN CHOOSE i \in 1..Len(story.characters) :
             /\ story.characters[i].name = character_name
             /\ \A j \in 1..(i - 1) : story.characters[j].name # character_name
    ELSE 0

\* a list that holds the first known character of the scene only
characters_descriptions_first(story, scene, i) ==
    IF i > Len(scene.characters_present) THEN <<>>
    ELSE LET c == _get_character(story, scene.characters_present[i])
         IN IF c = 0 THEN <<>>
            ELSE LET char == story.characters[c]
                     desc == IF char.refined_description \notin {None, ""}
                             THEN char.refined_description
                             ELSE char.visual_description
                 IN <<join(char.name, "") \o ": " \o desc>>

RECURSIVE characters_descriptions(_, _, _)
\* _build_image_prompt: one "name: description" line per character of the
\* scene that the story knows
characters_descriptions(story, scene, i) ==
    IF i > Len(scene.characters_present) THEN <<>>
    ELSE LET c == _get_character(story, scene.characters_present[i])
             rest == characters_descriptions(story, scene, i + 1)
         IN IF c = 0 THEN rest
            ELSE LET char == story.characters[c]
                     desc == IF char.refined_description \notin {None, ""}
                             THEN char.refined_description
                             ELSE char.visual_description
                 IN <<join(char.name, "") \o ": " \o desc>> \o rest

_build_image_prompt(story, scene, custom_prompt) ==
    IF custom_prompt \notin {None, ""} THEN custom_prompt
    ELSE "Art Style: " \o story.style
         \o " Scene Description: " \o scene.image_prompt
         \o " Characters in Scene: " \o join(characters_descriptions(story, scene, 1), "\n")
         \o " Keep the art style consistent as " \o story.style
         \o " Age-appropriate for " \o story.age_group \o " year olds"

\* what generate_image can give: an exception (the request failed, or the
\* reply holds no image), a falsy value, or an image object of some type
ImageReplies ==
    {[kind |-> "raise", error |-> "No image returned from model"],
     [kind |-> "falsy"],
     [kind |-> "image", type |-> "PIL"],
     [kind |-> "image", type |-> "genai"],
     [kind |-> "image", type |-> "other"]}

\* the image folder: writable, or not (makedirs or save raises OSError)
FolderStates == {"ok", "OSError"}

\* _save_image: the file name, or the exception it logs and raises again
_save_image(image, story_id, scene_number, now, folder) ==
    IF folder = "OSError" THEN Raise("OSError", "Permission denied")
    ELSE IF image.type \in {"genai", "PIL"}
    THEN Return("scene_" \o join(story_id, "") \o "_" \o ToString(scene_number)
                \o "_" \o ToString(now) \o ".png")
    ELSE Raise("TypeError", "Could not convert image to PIL Image")

\* generate_scene_image, the body of try from the model's reply to the
\* file name
image_file(reply, request, now, folder) ==
    IF reply.kind = "raise" THEN Raise("RuntimeError", reply.error)
    ELSE IF reply.kind = "falsy" THEN Raise("Exception", "Failed to generate image")
    ELSE _save_image(reply, request.story_id, request.scene_number, now, folder)

\* a handler that lets the errors of the file system through
except_but_OSError(e, scene_number) ==
    IF e.exc = "OSError"
    THEN [raised |-> TRUE, response |-> [none |-> TRUE]]
    ELSE [raised |-> FALSE, response |-> ImageResponse("", scene_number, FALSE, e.msg)]

\* generate_scene_image: except Exception as e
except_Exception(e, scene_number) ==
    [raised |-> FALSE, response |-> ImageResponse("", scene_number, FALSE, e.msg)]

\* which step of generate_scene_image an exception came from
failure_of(e) ==
    IF e.exc = "OSError" THEN "io"
    ELSE IF e.exc = "TypeError" THEN "convert"
    ELSE "model"

\* generate_image: the request to the image model; the aspect_ratio
\* argument is not used
generate_image_request(prompt, aspect_ratio) ==
    [model |-> "image_model", contents |-> prompt,
     response_modalities |-> <<"Text", "Image">>]

\* a URL without the folder
image_url_bare(filename) == filename

\* generate_scene_image: image_url = f"/images/{filename}"
image_url_of(filename) == "/images/" \o filename

\* POST /generate-scene-image with a valid request: generate_scene_image up
\* to its return for a missing story or scene, or up to the request it
\* sends to the image model
generate_scene_image_call(t, r) ==
    /\ pc[t] = "idle"
    /\ Len(instances) > 0
    /\ LET ref == get_story(r.story_id)
           scene == IF ref = 0 THEN 0 ELSE _get_scene(heap[ref], r.scene_number)
       IN IF ref = 0 \/ scene = 0
          THEN /\ last' = [op |-> "generate_scene_image", request |-> r,
                           raised |-> FALSE, failure |-> "not_found",
                           response |-> ImageResponse("", r.scene_number, FALSE,
                                           IF ref = 0 THEN "Story not found"
                                           ELSE "Scene not found"),
                           status |-> 400]
               /\ UNCHANGED <<pc, req, modelCalls>>
          ELSE /\ modelCalls < MaxModelCalls
               /\ modelCalls' = modelCalls + requests_per_call
               /\ pc' = [pc EXCEPT ![t] = "image_wait"]
               /\ req' = [req EXCEPT ![t] =
                             [op |-> "generate_scene_image", request |-> r,
                              ref |-> ref, scene |-> scene,
                              prompt |-> _build_image_prompt(heap[ref],
                                             heap[ref].scenes[scene], r.custom_prompt),
                              aspect_ratio |-> r.aspect_ratio,
                              sent |-> generate_image_request(
                                          _build_image_prompt(heap[ref],
                                              heap[ref].scenes[scene], r.custom_prompt),
                                          r.aspect_ratio)]]
               /\ UNCHANGED last
    /\ UNCHANGED <<disk, images, heap, stories, characters, cacheLoaded, instances,
                   clock, uuids, loads, deleted, output>>

\* generate_scene_image from the model's reply on: the image is saved, the
\* scene found before the call gets the URL and the story is stored; any
\* exception is logged and answered with a failure response
generate_scene_image_return(t, reply, folder, outcome) ==
    /\ pc[t] = "image_wait"
    /\ pc' = [pc EXCEPT ![t] = "idle"]
    /\ req' = [req EXCEPT ![t] = [op |-> "none"]]
    /\ LET r == req[t].request
           ref == req[t].ref
           file == image_file(reply, r, clock, folder)
       IN IF ~file.raised
          THEN LET image_url == image_url_of(file.value)
                   story == [heap[ref] EXCEPT !.scenes[req[t].scene].image_url = image_url]
               IN /\ images' = images \cup {file.value}
                  /\ store_story_effect(ref, story, outcome)
                  /\ heap' = Collect([heap EXCEPT ![ref] = story], stories', req')
                  /\ last' = [op |-> "generate_scene_image", request |-> r,
                              raised |-> FALSE, failure |-> "none",
                              response |-> ImageResponse(image_url, r.scene_number,
                                                         TRUE, None),
                              status |-> 200]
          ELSE LET handled == except_Exception(file, r.scene_number)
               IN /\ outcome = "ok"
                  /\ heap' = Collect(heap, stories, req')
                  /\ last' = [op |-> "generate_scene_image", request |-> r,
                              raised |-> handled.raised, failure |-> failure_of(file),
                              message |-> file.msg,
                              response |-> handled.response,
                              status |-> IF handled.raised THEN 500 ELSE 400]
                  /\ UNCHANGED <<images, disk, stories, characters, deleted>>
    /\ UNCHANGED <<cacheLoaded, instances, clock, uuids, loads, modelCalls, output>>

\* what generate_text can give: the text of the reply, which is empty when
\* the reply holds no text part, or an exception
TextReplies ==
    {[kind |-> "text", text |-> "r1"],
     [kind |-> "text", text |-> ""],
     [kind |-> "error"]}

\* the names POST /refine-character is called with
RefineNames == {<<"a">>, <<"b", " ", "c">>}

\* refine_character_image: the prompt for the text model
refine_prompt(character) ==
    "Analyze this character and remember their exact appearance: Character: "
    \o join(character.name, "") \o " Description: " \o character.visual_description

\* the bytes f.read() gives for the reference image
ReferenceImageBytes == "png bytes"

\* generate_text(prompt): the request to the text model holds the prompt;
\* generate_text has no parameter for an image
generate_text_request(prompt) ==
    [model |-> "text_model", contents |-> prompt, response_modalities |-> <<"Text">>]

\* POST /refine-character: refine_character_image up to a return of False
\* (story or character missing, reference image unreadable) or up to the
\* request it sends to the text model
refine_character_call(t, story_id, character_name, readable) ==
    /\ pc[t] = "idle"
    /\ Len(instances) > 0
    /\ LET ref == get_story(story_id)
           character == IF ref = 0 THEN 0 ELSE _get_character(heap[ref], character_name)
       IN IF ref = 0 \/ character = 0 \/ ~readable
          THEN /\ last' = [op |-> "refine_character_image", story_id |-> story_id,
                           character_name |-> character_name, result |-> FALSE,
                           status |-> 400]
               /\ UNCHANGED <<pc, req, modelCalls>>
          ELSE /\ modelCalls < MaxModelCalls
               /\ modelCalls' = modelCalls + requests_per_call
               /\ pc' = [pc EXCEPT ![t] = "refine_wait"]
               /\ req' = [req EXCEPT ![t] =
                             [op |-> "refine_character_image", story_id |-> story_id,
                              character_name |-> character_name,
                              ref |-> ref, character |-> character,
                              image_data |-> ReferenceImageBytes,
                              prompt |-> refine_prompt(heap[ref].characters[character]),
                              sent |-> generate_text_request(
                                          refine_prompt(heap[ref].characters[character]))]]
               /\ UNCHANGED last
    /\ UNCHANGED <<disk, images, heap, stories, characters, cacheLoaded, instances,
                   clock, uuids, loads, deleted, output>>

\* refine_character_image from the model's reply on: the character found
\* before the call gets the text and the story is stored; an exception gives
\* False
refine_character_return(t, reply, outcome) ==
    /\ pc[t] = "refine_wait"
    /\ pc' = [pc EXCEPT ![t] = "idle"]
    /\ req' = [req EXCEPT ![t] = [op |-> "none"]]
    /\ LET ref == req[t].ref IN
       IF reply.kind = "text"
       THEN LET story == [heap[ref] EXCEPT
                             !.characters[req[t].character].refined_description = reply.text]
            IN /\ store_story_effect(ref, story, outcome)
               /\ heap' = Collect([heap EXCEPT ![ref] = story], stories', req')
               /\ last' = [op |-> "refine_character_image", story_id |-> req[t].story_id,
                           character_name |-> req[t].character_name, result |-> TRUE,
                           status |-> 200, ref |-> ref, character |-> req[t].character,
                           response |-> reply.text]
       ELSE /\ outcome = "ok"
            /\ heap' = Collect(heap, stories, req')
            /\ last' = [op |-> "refine_character_image", story_id |-> req[t].story_id,
                        character_name |-> req[t].character_name, result |-> FALSE,
                        status |-> 400]
            /\ UNCHANGED <<disk, stories, characters, deleted>>
    /\ UNCHANGED <<images, cacheLoaded, instances, clock, uuids, loads, modelCalls,
                   output>>

NextImage ==
    \/ \E t \in Threads, r \in ImageRequests : generate_scene_image_call(t, r)
    \/ \E t \in Threads, reply \in ImageReplies, folder \in FolderStates :
          generate_scene_image_return(t, reply, folder, "ok")
    \/ \E t \in Threads, id \in StoryIds, name \in RefineNames, readable \in BOOLEAN :
          refine_character_call(t, id, name, readable)
    \/ \E t \in Threads, reply \in TextReplies : refine_character_return(t, reply, "ok")
    \/ \E id \in StoryIds : delete_story(id, TRUE)
    \/ Tick

SpecImage == InitServices /\ [][NextImage]_vars

(***************************************************************************)
(* All the operations that call an external model, each with an answer     *)
(* that succeeds and answers that fail.                                    *)
(***************************************************************************)
NextModel ==
    \/ \E t \in Threads, r \in StoryRequests : generate_story_call(t, r)
    \/ \E t \in Threads, a \in {x \in StoryAnswers : x.kind = "text" => x.open # ""} :
          generate_story_return(t, a, "ok")
    \/ \E t \in Threads : generate_story_choices_call(t)
    \/ \E t \in Threads, r \in ChoiceReplies : generate_story_choices_return(t, r)
    \/ \E t \in Threads, id \in StoryIds : generate_scene_call(t, id)
    \/ \E t \in Threads, r \in {x \in SceneReplies : x.kind \in {"empty", "object"}} :
          generate_scene_return(t, r, "ok")
    \/ \E t \in Threads, r \in {x \in ImageRequests : x.custom_prompt = None} :
          generate_scene_image_call(t, r)
    \/ \E t \in Threads, reply \in {x \in ImageReplies : x.kind # "falsy"} :
          generate_scene_image_return(t, reply, "ok", "ok")
    \/ \E t \in Threads, id \in StoryIds : refine_character_call(t, id, <<"a">>, TRUE)
    \/ \E t \in Threads, reply \in TextReplies : refine_character_return(t, reply, "ok")

SpecModel == InitServices /\ [][NextModel]_vars

(***************************************************************************)
(* POST /story-choices among stores and deletions.                         *)
(***************************************************************************)
NextChoices ==
    \/ \E t \in Threads : generate_story_choices_call(t)
    \/ \E t \in Threads, r \in ChoiceReplies : generate_story_choices_return(t, r)
    \/ \E t \in Threads, c \in CurrentScenes : generate_story_choices_no_dict(t, c)
    \/ \E s \in StoryInputs(clock) : store_story(s, "ok")
    \/ \E id \in StoryIds : delete_story(id, TRUE)

SpecChoices == InitServices /\ [][NextChoices]_vars

(***************************************************************************)
(* PUT /update-character among stores and deletions.                       *)
(***************************************************************************)
NextUpdate ==
    \/ \E id \in StoryIds, name \in UpdateNames, u \in CharacterUpdates :
          update_character(id, name, u, "ok")
    \/ \E s \in {x \in StoryInputs(clock) : x.title = "T" /\ x.story_id = IdPool[2]} :
          store_story(s, "ok")
    \/ delete_story(IdPool[2], TRUE)

SpecUpdate == InitServices /\ [][NextUpdate]_vars

(***************************************************************************)
(* generate_scene_from_choice called from two request threads.  After the  *)
(* model's answer a thread can be suspended between the statements of      *)
(* store_story and of _save_to_disk; the steps are the append with the     *)
(* assignments to the dictionaries, open() with story.to_dict(), and the   *)
(* write that json.dump and the close of the file do.                      *)
(***************************************************************************)
\* thread o is inside a generate_scene_from_choice for the Story object ref
InFlight(o, ref) ==
    /\ pc[o] \in {"scene_wait", "scene_save", "scene_write"}
    /\ req[o].ref = ref

\* history: the request of t, marked when another request for the same
\* Story object is running while t takes a step
Overlapped(t) ==
    \/ Get(req[t], "overlapped", FALSE)
    \/ \E o \in Threads \ {t} : InFlight(o, req[t].ref)

\* history: the requests after a step of t, each request running beside t
\* marked, and t's request replaced by r
MarkOverlap(t, r) ==
    [o \in Threads |->
        IF o = t THEN r
        ELSE IF InFlight(o, req[t].ref) THEN Put(req[o], "overlapped", TRUE)
        ELSE req[o]]

\* the model answered: Scene(...), story.scenes.append(new_scene), and
\* store_story up to the call of _save_to_disk; None for an exception or an
\* empty reply
scene_append(t, reply) ==
    /\ pc[t] = "scene_wait"
    /\ IF scene_data_truthy(reply)
       THEN LET ref == req[t].ref
                scene_data == IF reply.kind = "object" THEN reply.data ELSE EmptyDict
                scene == new_scene(scene_data, req[t].current_scene_count)
                story == [heap[ref] EXCEPT !.scenes = Append(@, scene)]
            IN /\ pc' = [pc EXCEPT ![t] = "scene_save"]
               /\ req' = MarkOverlap(t, Put(Put(req[t], "overlapped", Overlapped(t)),
                                            "scene", scene))
               /\ heap' = [heap EXCEPT ![ref] = story]
               /\ stories' = Put(stories, story.story_id, ref)
               /\ characters' = store_characters(characters, story, 1)
               /\ deleted' = deleted \ {story.story_id}
               /\ UNCHANGED last
       ELSE /\ pc' = [pc EXCEPT ![t] = "idle"]
            /\ req' = MarkOverlap(t, [op |-> "none"])
            /\ heap' = Collect(heap, stories, req')
            /\ last' = [op |-> "generate_scene_from_choice",
                        story_id |-> req[t].story_id, ok |-> FALSE, status |-> 500,
                        error |-> FailedToGenerateScene]
            /\ UNCHANGED <<stories, characters, deleted>>
    /\ UNCHANGED <<disk, images, cacheLoaded, instances, clock, uuids, loads, modelCalls,
                   output>>

\* _save_to_disk: open(filepath, 'w') empties the file, and story.to_dict()
\* is the value json.dump will write
scene_open(t) ==
    /\ pc[t] = "scene_save"
    /\ pc' = [pc EXCEPT ![t] = "scene_write"]
    /\ disk' = Put(disk, req[t].story_id, BadFile)
    /\ req' = MarkOverlap(t, Put(Put(req[t], "overlapped", Overlapped(t)),
                                 "snapshot", Story_to_dict(heap[req[t].ref])))
    /\ UNCHANGED <<images, heap, stories, characters, cacheLoaded, instances, clock,
                   uuids, last, loads, deleted, modelCalls, output>>

\* the text of story to_dict a is shorter than that of b: it has fewer scenes
ShorterText(a, b) == Len(a.scenes) < Len(b.scenes)

\* _save_to_disk: the text is written from the start of the file, which is
\* not emptied again: over a longer text that another thread wrote since
\* this thread's open(), the file keeps the other text's tail and is no JSON
written_file(d, story_id, snapshot) ==
    IF story_id \in DOMAIN d /\ d[story_id].ok /\ ShorterText(snapshot, d[story_id].data)
    THEN BadFile
    ELSE [ok |-> TRUE, data |-> snapshot]

\* json.dump and the close of the file, then the return of the scene
scene_write(t) ==
    /\ pc[t] = "scene_write"
    /\ pc' = [pc EXCEPT ![t] = "idle"]
    /\ disk' = Put(disk, req[t].story_id,
                   written_file(disk, req[t].story_id, req[t].snapshot))
    /\ req' = MarkOverlap(t, [op |-> "none"])
    /\ heap' = Collect(heap, stories, req')
    /\ last' = [op |-> "generate_scene_from_choice",
                story_id |-> req[t].story_id, ok |-> TRUE, status |-> 200,
                ref |-> req[t].ref, scene |-> Scene_to_dict(req[t].scene),
                is_final |-> req[t].remaining_scenes = 1,
                scenes_remaining |-> req[t].remaining_scenes - 1,
                current_scene_count |-> req[t].current_scene_count,
                overlapped |-> Overlapped(t)]
    /\ UNCHANGED <<images, stories, characters, cacheLoaded, instances, clock, uuids,
                   loads, deleted, modelCalls, output>>

NextScenes ==
    \/ \E t \in Threads, id \in StoryIds : generate_scene_call(t, id)
    \/ \E t \in Threads, r \in SceneReplies : scene_append(t, r)
    \/ \E t \in Threads : scene_open(t)
    \/ \E t \in Threads : scene_write(t)

SpecScenes == InitServices /\ [][NextScenes]_vars

(***************************************************************************)
(* DELETE /delete-story while requests that fetched the story wait for the *)
(* external model.                                                         *)
(***************************************************************************)
NextDelete ==
    \/ \E id \in StoryIds : delete_story(id, TRUE)
    \/ \E t \in Threads : generate_scene_call(t, IdPool[1])
    \/ \E t \in Threads,
          r \in {x \in SceneReplies : x.kind = "object" /\ "text" \in DOMAIN x.data} :
          generate_scene_return(t, r, "ok")
    \/ \E t \in Threads,
          r \in {x \in ImageRequests : x.custom_prompt = None /\ x.story_id = IdPool[1]} :
          generate_scene_image_call(t, r)
    \/ \E t \in Threads, reply \in {x \in ImageReplies : x.kind = "image" /\ x.type = "PIL"} :
          generate_scene_image_return(t, reply, "ok", "ok")
    \/ \E t \in Threads : refine_character_call(t, IdPool[1], <<"a">>, TRUE)
    \/ \E t \in Threads, reply \in {x \in TextReplies : x.kind = "text" /\ x.text # ""} :
          refine_character_return(t, reply, "ok")
    \/ update_character(IdPool[1], <<"a">>, [visual_description |-> "v9"], "ok")
    \/ \E t \in Threads, r \in {x \in StoryRequests : x.genre = "adventure"} :
          generate_story_call(t, r)
    \/ \E t \in Threads,
          a \in {x \in StoryAnswers : x.kind = "text" =>
                   x.open = "<fence>json" /\ x.close = "<fence>"} :
          generate_story_return(t, a, "ok")

SpecDelete == InitServices /\ [][NextDelete]_vars

(***************************************************************************)
(* The operations that create, load, change or store a story.              *)
(***************************************************************************)
NextStories ==
    \/ \E o \in Orders(DOMAIN disk) : CacheService_init(o)
    \/ \E s \in {x \in StoryInputs(clock) : x.title = "T" /\ x.story_id = IdPool[2]} :
          store_story(s, "ok")
    \/ \E id \in StoryIds,
          u \in {x \in CharacterUpdates : DOMAIN x \cap ClassAttributes = {}} :
          update_character(id, <<"a">>, u, "ok")
    \/ generate_scene_call("t1", IdPool[1])
    \/ \E r \in {x \in SceneReplies : x.kind = "object" /\ "text" \in DOMAIN x.data} :
          generate_scene_return("t1", r, "ok")
    \/ \E r \in {x \in ImageRequests : x.custom_prompt = None /\ x.scene_number = 2} :
          generate_scene_image_call("t1", r)
    \/ \E reply \in {x \in ImageReplies : x.kind = "image" /\ x.type = "PIL"} :
          generate_scene_image_return("t1", reply, "ok", "ok")
    \/ refine_character_call("t1", IdPool[1], <<"a">>, TRUE)
    \/ \E reply \in {x \in TextReplies : x.kind = "text" /\ x.text # ""} :
          refine_character_return("t1", reply, "ok")

SpecStories == Init /\ [][NextStories]_vars

(***************************************************************************)
(* services/export_service.py: the JSON export, and Story.from_dict        *)
(* applied to the "story" field of an exported file.                       *)
(***************************************************************************)
\* the bodies POST /export/json builds an ExportRequest from
ExportRequests ==
    {[story_id |-> id, format |-> "json", images |-> EmptyDict, filename |-> None,
      include_images |-> TRUE, include_metadata |-> m] :
        id \in StoryIds, m \in BOOLEAN}

\* _export_json: export_data, the value json.dump writes
export_data(story, request, now) ==
    [story |-> Story_to_dict(story),
     images |-> IF request.include_images THEN request.images ELSE EmptyDict,
     metadata |-> IF request.include_metadata
                  THEN [exported_at |-> isoformat(now), version |-> "1.0",
                        format |-> "json"]
                  ELSE EmptyDict]

\* _export_json: the name of the written file, or None when the write raised
_export_json(story, request, now, outcome) ==
    IF outcome = "ok"
    THEN IF request.filename # None THEN request.filename
         ELSE "story_" \o join(story.story_id, "") \o "_" \o ToString(now) \o ".json"
    ELSE None

\* POST /export/json: 404 for a story that is not cached, else the export
export_json(r, outcome) ==
    /\ Len(instances) > 0
    /\ IF get_story(r.story_id) = 0
       THEN /\ outcome = "ok"
            /\ last' = [op |-> "export_json", status |-> 404]
       ELSE LET story == heap[get_story(r.story_id)]
                filename == _export_json(story, r, clock, outcome)
            IN last' = IF filename = None
                       THEN [op |-> "export_json", status |-> 500]
                       ELSE [op |-> "export_json", status |-> 200,
                             filename |-> filename, story |-> story,
                             file |-> export_data(story, r, clock)]
    /\ UNCHANGED <<disk, images, heap, stories, characters, cacheLoaded, instances,
                   clock, uuids, pc, req, loads, deleted, modelCalls, output>>

\* a reader of the exported file hands its "story" field to Story.from_dict
read_export ==
    /\ last.op = "export_json"
    /\ last.status = 200
    /\ from_dict_ok(last.file.story)
    /\ last' = [op |-> "from_dict", exported |-> last.story,
                restored |-> from_dict(last.file.story, clock, uuid4)]
    /\ UNCHANGED <<disk, images, heap, stories, characters, cacheLoaded, instances,
                   clock, uuids, pc, req, loads, deleted, modelCalls, output>>

NextExport ==
    \/ \E s \in StoryInputs(clock) : store_story(s, "ok")
    \/ \E r \in ExportRequests, w \in {"ok", "open_failed"} : export_json(r, w)
    \/ read_export
    \/ Tick

SpecExport == InitServices /\ [][NextExport]_vars

(***************************************************************************)
(* services/export_service.py: the PDF export and its temporary images.    *)
(* The images of a request are given by scene index; an image is a base64  *)
(* data URL (that decodes, or does not), a remote URL or a local path.     *)
(***************************************************************************)
PdfImageKinds == {"data", "data_bad", "http", "path"}

\* the bodies POST /export/pdf builds an ExportRequest from
PdfRequests ==
    {[story_id |-> id, format |-> "pdf", images |-> im, filename |-> None,
      include_images |-> inc, include_metadata |-> TRUE] :
        id \in StoryIds, inc \in BOOLEAN,
        im \in {(0 :> "data"), (0 :> "data") @@ (1 :> "data"),
                (0 :> "http") @@ (1 :> "data_bad"), (1 :> "path")}}

\* where _export_pdf raises: nowhere, in Paragraph(story.title), in
\* Paragraph(scene.text) of the first scene, or in doc.build
PdfFailures == {"none", "title", "text", "build"}

\* _process_pdf_image: temp_img_<index>.png in OUTPUT_FOLDER
temp_path(index) == "temp_img_" \o ToString(index) \o ".png"

\* _process_pdf_image saves a temporary file for a data URL that decodes
saves_temp(request, i) ==
    /\ request.include_images
    /\ i \in DOMAIN request.images
    /\ request.images[i] = "data"

\* the temporary files written while the scenes 0..upto are laid out
temp_images(request, upto) ==
    {temp_path(i) : i \in {j \in 0..upto : saves_temp(request, j)}}

\* the temporary files of this export that are in the folder when
\* _export_pdf returns: _cleanup_temp_images(len(story.scenes)) runs after
\* doc.build and is skipped by every exception
temp_images_left(story, request, failure) ==
    CASE failure = "none" -> {}
      [] failure = "title" -> {}
      [] failure = "text" -> IF Len(story.scenes) = 0 THEN {}
                             ELSE temp_images(request, 0)
      [] failure = "build" -> temp_images(request, Len(story.scenes) - 1)

\* _export_pdf: the file name, or None when an exception was caught; with
\* no scene there is no scene text to fail in
_export_pdf(story, request, now, failure) ==
    IF failure = "none" \/ (failure = "text" /\ Len(story.scenes) = 0)
    THEN IF request.filename # None THEN request.filename
         ELSE "story_" \o join(story.story_id, "") \o "_" \o ToString(now) \o ".pdf"
    ELSE None

\* _cleanup_temp_images(count): the temp_img_<i>.png with i < count
cleaned(count) == {temp_path(i) : i \in 0..(count - 1)}

\* POST /export/pdf: 404 for a story that is not cached, else the export
export_pdf(r, failure) ==
    /\ Len(instances) > 0
    /\ IF get_story(r.story_id) = 0
       THEN /\ failure = "none"
            /\ last' = [op |-> "export_pdf", status |-> 404, created |-> {}]
            /\ UNCHANGED output
       ELSE LET story == heap[get_story(r.story_id)]
                filename == _export_pdf(story, r, clock, failure)
                created == IF failure = "title" THEN {}
                           ELSE IF failure = "text" /\ Len(story.scenes) > 0
                           THEN temp_images(r, 0)
                           ELSE temp_images(r, Len(story.scenes) - 1)
            IN IF filename = None
               THEN /\ last' = [op |-> "export_pdf", status |-> 500,
                                created |-> created]
                    /\ output' = output \cup temp_images_left(story, r, failure)
               ELSE /\ last' = [op |-> "export_pdf", status |-> 200,
                                filename |-> filename, created |-> created]
                    /\ output' = ((output \cup created) \ cleaned(Len(story.scenes)))
                                     \cup {filename}
    /\ UNCHANGED <<disk, images, heap, stories, characters, cacheLoaded, instances,
                   clock, uuids, pc, req, loads, deleted, modelCalls>>

NextPdf ==
    \/ \E r \in PdfRequests, f \in PdfFailures : export_pdf(r, f)
    \/ \E s \in {x \in StoryInputs(clock) : x.title = "T" /\ x.story_id = IdPool[2]} :
          store_story(s, "ok")
    \/ delete_story(IdPool[2], TRUE)

SpecPdf == InitServices /\ [][NextPdf]_vars

(***************************************************************************)
(* store_story called from two request threads.  A thread can be suspended *)
(* between the statements of store_story; the steps are the assignment to  *)
(* self.stories, the loop over the characters, and the write of the file.  *)
(***************************************************************************)
\* the caller builds the Story and enters store_story
store_begin(t, story) ==
    /\ pc[t] = "idle"
    /\ Len(instances) > 0
    /\ HasRoom(heap)
    /\ heap' = [heap EXCEPT ![Alloc(heap)] = story]
    /\ req' = [req EXCEPT ![t] = [op |-> "store_story", ref |-> Alloc(heap)]]
    /\ pc' = [pc EXCEPT ![t] = "store_mem"]
    /\ UNCHANGED <<disk, images, stories, characters, cacheLoaded, instances, clock,
                   uuids, last, loads, deleted, modelCalls, output>>

\* self.stories[story.story_id] = story
store_mem(t) ==
    /\ pc[t] = "store_mem"
    /\ stories' = Put(stories, heap[req[t].ref].story_id, req[t].ref)
    /\ heap' = Collect(heap, stories', req)
    /\ deleted' = deleted \ {heap[req[t].ref].story_id}
    /\ pc' = [pc EXCEPT ![t] = "store_chars"]
    /\ UNCHANGED <<disk, images, characters, cacheLoaded, instances, clock, uuids,
                   req, last, loads, modelCalls, output>>

\* for char in story.characters: self.characters[char_key] = char.to_dict()
store_chars(t) ==
    /\ pc[t] = "store_chars"
    /\ characters' = store_characters(characters, heap[req[t].ref], 1)
    /\ pc' = [pc EXCEPT ![t] = "store_disk"]
    /\ UNCHANGED <<disk, images, heap, stories, cacheLoaded, instances, clock, uuids,
                   req, last, loads, deleted, modelCalls, output>>

\* self._save_to_disk(story); return True
store_disk(t, outcome) ==
    /\ pc[t] = "store_disk"
    /\ disk' = _save_to_disk(disk, heap[req[t].ref], outcome)
    /\ pc' = [pc EXCEPT ![t] = "done"]
    /\ last' = [op |-> "store_story", story_id |-> heap[req[t].ref].story_id,
                ref |-> req[t].ref, result |-> TRUE, written |-> outcome = "ok"]
    /\ UNCHANGED <<images, heap, stories, characters, cacheLoaded, instances, clock,
                   uuids, req, loads, deleted, modelCalls, output>>

NextConc ==
    \/ \E o \in Orders(DOMAIN disk) : CacheService_init(o)
    \/ \E t \in Threads, s \in StoryInputs(clock) : store_begin(t, s)
    \/ \E t \in Threads : store_mem(t)
    \/ \E t \in Threads : store_chars(t)
    \/ \E t \in Threads : store_disk(t, "ok")

SpecConc == Init /\ [][NextConc]_vars

(***************************************************************************)
(* Properties of the cache.                                                *)
(***************************************************************************)
HasEntry(l, story_id) == \E i \in DOMAIN l : l[i].id = story_id

\* C1: once delete_story(id) has returned True, and until a story with that
\* id is stored again, no listing has an entry for id, the file <id>.json
\* does not exist and get_story(id) returns None (0).
C1_DeletedStoryIsGone ==
    \A id \in deleted :
        /\ \A l \in list_stories_results : ~HasEntry(l, id)
        /\ id \notin DOMAIN disk
        /\ get_story(id) = 0
        /\ (last.op = "get_story" /\ last.story_id = id) => last.result = 0
        /\ (last.op = "list_stories") => ~HasEntry(last.result, id)

\* a get_story for a story that was cached, then deleted with result True,
\* while another story is still listed
C1_Witness ==
    /\ last.op = "get_story"
    /\ last.story_id \in deleted
    /\ DOMAIN stories # {}

KeyOfStory(k, story_id) ==
    /\ Len(k) > Len(story_id)
    /\ SubSeq(k, 1, Len(story_id) + 1) = story_id \o <<"_">>

\* C6: a step in which store_story(s) returns leaves get_story(s.story_id) = s,
\* the index entry of every character of s equal to that character's data,
\* the file <s.story_id>.json holding s's serialization, and the entries and
\* files of every other story as they were.
C6_StoreStoryEffect ==
    [][(last'.op = "store_story" /\ last' # last) =>
          LET id == last'.story_id
              s == heap'[last'.ref]
          IN /\ Get(stories', id, 0) = last'.ref
             /\ \A i \in 1..Len(s.characters) :
                    Get(characters', char_key(id, s.characters[i].name), None) =
                        Character_to_dict(s.characters[i])
             /\ id \in DOMAIN disk'
             /\ disk'[id] = FileOf(s)
             /\ \A o \in StoryIds \ {id} :
                    /\ Get(stories', o, 0) = get_story(o)
                    /\ (o \in DOMAIN stories => heap'[stories'[o]] = heap[stories[o]])
                    /\ Get(disk', o, None) = Get(disk, o, None)
             /\ \A k \in (DOMAIN characters \cup DOMAIN characters') :
                    ~KeyOfStory(k, id) =>
                        Get(characters', k, None) = Get(characters, k, None)]_vars

\* C10: the story folder is scanned at most once however many CacheService
\* instances are constructed, every instance holds the same two dictionaries,
\* and once the scan is done the dictionaries change only in store_story and
\* delete_story: not in a constructor, a get_story or a list_stories, and not
\* when a file of the folder is added, changed or removed.
C10_LoadedOnce ==
    /\ [](loads <= 1)
    /\ [](\A i \in 1..Len(instances) : instances[i] = CacheService_fields)
    /\ [][(cacheLoaded /\ last'.op \notin {"store_story", "delete_story"}) =>
             /\ stories' = stories
             /\ characters' = characters
             /\ heap' = heap
             /\ loads' = loads]_vars

\* two instances exist, the folder was scanned once, and a story file put
\* there afterwards is not in the cache
C10_Witness ==
    /\ last.op = "external"
    /\ Len(instances) >= 2
    /\ loads = 1
    /\ \E id \in DOMAIN disk : disk[id].ok /\ get_story(id) = 0

\* the index entries of story story_id are those a store of s alone writes
IndexMatches(story_id, s) ==
    LET own == store_characters(EmptyDict, s, 1) IN
    /\ {k \in DOMAIN characters : KeyOfStory(k, story_id)} = DOMAIN own
    /\ \A k \in DOMAIN own : characters[k] = own[k]

\* the cache holds the write of thread t and nothing of another write
MatchesWrite(t) ==
    LET s == heap[req[t].ref] IN
    /\ get_story(s.story_id) = req[t].ref
    /\ IndexMatches(s.story_id, s)
    /\ s.story_id \in DOMAIN disk
    /\ disk[s.story_id] = FileOf(s)

\* C4: when two threads have each run store_story for the same story id, with
\* no write error, the entry of the story map, the index entries of the story
\* and the file <story_id>.json all come from one and the same of the two
\* writes.
C4_OneWriteWins ==
    (/\ \A t \in Threads : pc[t] = "done" /\ req[t].op = "store_story"
     /\ \A t, u \in Threads : heap[req[t].ref].story_id = heap[req[u].ref].story_id)
    => \E t \in Threads : MatchesWrite(t)

(***************************************************************************)
(* Properties of the story service.                                        *)
(***************************************************************************)
\* C2: the story a generate_story call returns for a valid request has exactly
\* one scene, a non-empty title and a non-empty story_id, and it is the story
\* the cache holds under that id, whatever JSON object the model returned.
C2_OneSceneTitledStory ==
    (last.op = "generate_story" /\ ~last.raised) =>
        LET s == heap[last.ref] IN
        /\ Len(s.scenes) = 1
        /\ s.title # ""
        /\ s.story_id # <<>>
        /\ get_story(s.story_id) = last.ref

Increasing(scenes) ==
    \A i, j \in 1..Len(scenes) : i < j => scenes[i].scene_number < scenes[j].scene_number

Positional(scenes) == \A i \in 1..Len(scenes) : scenes[i].scene_number = i

\* C7, as claimed: in every cached story the scene numbers are pairwise
\* distinct and strictly increasing along the scene list.
C7_SceneNumbersIncrease ==
    \A id \in DOMAIN stories : Increasing(heap[stories[id]].scenes)

\* C7, amended: when the scenes of a story are numbered 1..n in order, a
\* generate_scene_from_choice call that no other append to the story
\* overlapped, and whose reply names no scene number or names n + 1, leaves
\* them numbered 1..n+1, hence distinct and increasing.
C7_NumberedByPosition ==
    [][\A t \in Threads :
          (/\ pc[t] = "scene_wait" /\ pc'[t] = "idle" /\ last'.ok
           /\ Positional(heap[req[t].ref].scenes)
           /\ Len(heap[req[t].ref].scenes) = req[t].current_scene_count
           /\ (last'.numbered =>
                   last'.scene.scene_number = req[t].current_scene_count + 1))
          => /\ Positional(heap'[req[t].ref].scenes)
             /\ Increasing(heap'[req[t].ref].scenes)
             /\ Len(heap'[req[t].ref].scenes) = req[t].current_scene_count + 1]_vars

\* a call has appended a third scene to a story whose reply named no number
C7_Witness ==
    /\ last.op = "generate_scene_from_choice"
    /\ last.ok
    /\ ~last.numbered
    /\ Len(heap[last.ref].scenes) >= 3
    /\ Positional(heap[last.ref].scenes)

\* C8: a successful generate_scene_from_choice has appended its scene to the
\* story, the story is cached, and is_final is true exactly when the story
\* now has at least total_planned_scenes scenes.
C8_FinalWhenBudgetReached ==
    (last.op = "generate_scene_from_choice" /\ last.ok) =>
        LET s == heap[last.ref] IN
        /\ get_story(last.story_id) = last.ref
        /\ Len(s.scenes) >= 1
        /\ Scene_to_dict(s.scenes[Len(s.scenes)]) = last.scene
        /\ last.is_final <=> (Len(s.scenes) >= s.total_planned_scenes)

(***************************************************************************)
(* Properties of the image service.                                        *)
(***************************************************************************)
StoryMissing(r) == r.story_id \notin DOMAIN stories

SceneMissing(r) ==
    /\ r.story_id \in DOMAIN stories
    /\ \A i \in 1..Len(heap[stories[r.story_id]].scenes) :
           heap[stories[r.story_id]].scenes[i].scene_number # r.scene_number

\* C3: generate_scene_image for a story id that is not cached returns
\* ImageResponse(success=False, error='Story not found', image_url=''), and
\* for a cached story without a scene of the requested number the same with
\* error 'Scene not found'; in both cases it does not raise, sends nothing to
\* the image model and leaves the cache (dictionaries, objects, files) as
\* it was.
C3_NotFoundResponses ==
    [][\A t \in Threads, r \in ImageRequests :
          generate_scene_image_call(t, r) /\ (StoryMissing(r) \/ SceneMissing(r)) =>
             /\ modelCalls' = modelCalls
             /\ pc' = pc
             /\ <<stories, characters, heap, disk, images>>'
                    = <<stories, characters, heap, disk, images>>
             /\ last'.op = "generate_scene_image"
             /\ ~last'.raised
             /\ last'.response =
                   ImageResponse("", r.scene_number, FALSE,
                                 IF StoryMissing(r) THEN "Story not found"
                                 ELSE "Scene not found")]_vars

C3_Witness ==
    /\ last.op = "generate_scene_image"
    /\ last.failure = "not_found"
    /\ last.response.error = "Scene not found"
    /\ last.request.story_id \in DOMAIN stories

FailedImageCall(kinds) ==
    /\ last.op = "generate_scene_image"
    /\ last.failure \in kinds

\* C9: when the image model fails or returns nothing, when the returned
\* image cannot be converted, and also when writing the image file fails
\* with an I/O error, generate_scene_image does not raise: it returns
\* ImageResponse(success=False, error=<the exception's message>,
\* image_url='').
C9_FailuresAreResponses ==
    FailedImageCall({"model", "convert", "io"}) =>
        /\ ~last.raised
        /\ last.response = ImageResponse("", last.request.scene_number, FALSE, last.message)

\* C9 as stated: model and conversion failures are answered with a failure
\* response, an I/O failure while writing the image file propagates.
C9_IOFailurePropagates ==
    /\ FailedImageCall({"model", "convert"}) =>
          /\ ~last.raised
          /\ last.response =
                ImageResponse("", last.request.scene_number, FALSE, last.message)
    /\ FailedImageCall({"io"}) => last.raised

C9_Witness ==
    /\ FailedImageCall({"io"})
    /\ ~last.raised
    /\ last.response.success = FALSE
    /\ last.message = "Permission denied"

(***************************************************************************)
(* Properties of the JSON export.                                          *)
(***************************************************************************)
\* C5: Story.from_dict applied to the "story" field that _export_json wrote
\* gives a story equal to the exported one in every field: title,
\* characters, scenes, style, age_group, genre, total_planned_scenes,
\* story_id and created_at.
C5_ExportRoundTrips ==
    last.op = "from_dict" => last.restored = last.exported

(***************************************************************************)
(* Properties of the startup load.                                         *)
(***************************************************************************)
Unreadable(id) == ~disk[id].ok \/ ~from_dict_ok(disk[id].data)

\* the position in `order` of the first file that cannot be read or parsed
FirstFailure(order) ==
    IF \E i \in 1..Len(order) : Unreadable(order[i])
    THEN CHOOSE i \in 1..Len(order) :
             /\ Unreadable(order[i])
             /\ \A j \in 1..(i - 1) : ~Unreadable(order[j])
    ELSE Len(order) + 1

\* C11: when a story file cannot be read or parsed during the startup load,
\* the constructor of CacheService still completes; the stories of the files
\* listed before the failing one are in the map, the files listed after it
\* are not loaded, and a later CacheService instance does not load again.
C11_LoadStopsAtBadFile ==
    [][\A o \in Orders(DOMAIN disk) :
          CacheService_init(o) =>
             /\ cacheLoaded'
             /\ Len(instances') = Len(instances) + 1
             /\ IF ~cacheLoaded
                THEN /\ DOMAIN stories' =
                           DOMAIN stories
                           \cup {disk[o[i]].data.story_id : i \in 1..(FirstFailure(o) - 1)}
                     /\ \A i \in 1..(FirstFailure(o) - 1) :
                           Story_to_dict(heap'[stories'[disk[o[i]].data.story_id]]).scenes
                               = disk[o[i]].data.scenes
                ELSE /\ stories' = stories
                     /\ characters' = characters
                     /\ heap' = heap]_vars

C11_Witness ==
    /\ last.op = "CacheService"
    /\ Len(instances) = 2
    /\ loads = 1
    /\ \E bad \in DOMAIN disk, good \in DOMAIN disk :
          /\ ~disk[bad].ok
          /\ disk[good].ok
          /\ good \notin DOMAIN stories

Contains(s, sub) ==
    \E i \in 1..(Len(s) - Len(sub) + 1) : SubSeq(s, i, i + Len(sub) - 1) = sub

\* str(name) for a name kept as a sequence of characters
Str(name) == join(name, "")

\* the characters of the story that the scene names
Present(story, scene) ==
    {c \in 1..Len(story.characters) :
        \E i \in 1..Len(scene.characters_present) :
           scene.characters_present[i] = story.characters[c].name}

\* the description a prompt uses for a character
DescriptionOf(char) ==
    IF char.refined_description \notin {None, ""}
    THEN char.refined_description
    ELSE char.visual_description

\* the scene a request asks an image for, in the story as it is cached
RequestedScene(r) ==
    LET story == heap[stories[r.story_id]]
    IN story.scenes[CHOOSE i \in 1..Len(story.scenes) :
                       story.scenes[i].scene_number = r.scene_number]

\* C13: the prompt that generate_scene_image sends to the image model for a
\* request without custom prompt contains, for every character that the
\* scene's characters_present names and the story holds, the character's
\* name and its description (the refined one if set, else the visual one)
\* verbatim, as the line "<name>: <description>".
C13_PromptNamesCharacters ==
    [][\A t \in Threads, r \in ImageRequests :
          /\ generate_scene_image_call(t, r)
          /\ pc'[t] = "image_wait"
          /\ r.custom_prompt = None
          => \A c \in Present(heap[stories[r.story_id]], RequestedScene(r)) :
                LET char == heap[stories[r.story_id]].characters[c] IN
                /\ Contains(req'[t].prompt, Str(char.name))
                /\ Contains(req'[t].prompt, DescriptionOf(char))
                /\ Contains(req'[t].prompt, Str(char.name) \o ": " \o DescriptionOf(char))]_vars

C13_Witness ==
    \E t \in Threads :
       /\ pc[t] = "image_wait"
       /\ req[t].request.custom_prompt = None
       /\ Contains(req[t].prompt, "a: v1")
       /\ Contains(req[t].prompt, "b c: v2")

\* the line of the prompt that describes the character, with `desc` for the
\* description
LineOf(char, desc) == Str(char.name) \o ": " \o desc

\* C14: after refine_character_image has returned True for a character, the
\* character's refined_description is the text the model answered, and an
\* image prompt built without custom prompt for a scene that names a
\* character with a refined description describes the character by the
\* refined description and not by the visual description.
C14_RefinedDescriptionUsed ==
    /\ last.op = "refine_character_image" /\ last.result =>
          heap[last.ref].characters[last.character].refined_description = last.response
    /\ \A id \in DOMAIN stories :
          LET story == heap[stories[id]] IN
          \A s \in 1..Len(story.scenes) :
             \A c \in Present(story, story.scenes[s]) :
                LET char == story.characters[c]
                    prompt == _build_image_prompt(story, story.scenes[s], None)
                IN char.refined_description # None =>
                      /\ Contains(prompt, LineOf(char, char.refined_description))
                      /\ ~Contains(prompt, LineOf(char, char.visual_description))

\* C15: a successful generate_scene_image sets the image_url of the scene it
\* found to the URL it returns, '/images/<filename>' for the file it wrote,
\* leaves the other scenes as they were and stores the story once (the map
\* holds the object under its id and the story file holds its fields); when
\* the story or the scene is missing, the model fails or the image cannot be
\* saved, the image_url keeps its value and nothing is stored.
C15_ImageUrlSetOnSuccessOnly ==
    [][/\ \A t \in Threads, reply \in ImageReplies, folder \in FolderStates :
             generate_scene_image_return(t, reply, folder, "ok") =>
                LET ref == req[t].ref
                    n == req[t].scene
                    id == heap[ref].story_id
                IN IF last'.response.success
                   THEN /\ \E f \in images' : last'.response.image_url = "/images/" \o f
                        /\ heap'[ref].scenes[n].image_url = last'.response.image_url
                        /\ heap'[ref] = [heap[ref] EXCEPT
                                            !.scenes[n].image_url = last'.response.image_url]
                        /\ Get(stories', id, 0) = ref
                        /\ Get(disk', id, BadFile) = FileOf(heap'[ref])
                        /\ \A other \in DOMAIN stories' \ {id} :
                              Get(stories, other, 0) = stories'[other]
                   ELSE /\ heap'[ref] \in {heap[ref], Free}
                        /\ <<stories, characters, disk, images>>'
                              = <<stories, characters, disk, images>>
       /\ \A t \in Threads, r \in ImageRequests :
             generate_scene_image_call(t, r) =>
                <<stories, characters, disk, images, heap>>'
                    = <<stories, characters, disk, images, heap>>]_vars

C15_Witness ==
    /\ last.op = "generate_scene_image"
    /\ last.response.success
    /\ last.request.story_id \in DOMAIN stories
    /\ \E n \in 1..Len(heap[stories[last.request.story_id]].scenes) :
          /\ heap[stories[last.request.story_id]].scenes[n].scene_number
                = last.request.scene_number
          /\ heap[stories[last.request.story_id]].scenes[n].image_url
                = last.response.image_url

\* C16: for an image request with a custom prompt, the request that reaches
\* the external image model carries exactly the custom prompt as its
\* contents and carries the aspect ratio of the image request.
C16_CustomPromptAndRatioSent ==
    \A t \in Threads :
       /\ pc[t] = "image_wait"
       /\ req[t].request.custom_prompt # None
       => /\ req[t].prompt = req[t].request.custom_prompt
          /\ req[t].aspect_ratio = req[t].request.aspect_ratio
          /\ req[t].sent.contents = req[t].request.custom_prompt
          /\ "aspect_ratio" \in DOMAIN req[t].sent
          /\ req[t].sent.aspect_ratio = req[t].request.aspect_ratio

(***************************************************************************)
(* Properties of the routes.                                               *)
(***************************************************************************)
\* a body of POST /generate-story with a missing or malformed field
Malformed(body) ==
    \/ body.kind # "object"
    \/ "prompt" \notin DOMAIN body.data
    \/ body.data.prompt.t # "str"
    \/ body.data.prompt.len < 10
    \/ "genre" \in DOMAIN body.data
          /\ body.data.genre.v \notin {"adventure", "fantasy", "science-fiction",
                                       "mystery", "comedy", "educational"}
    \/ "num_scenes" \in DOMAIN body.data
          /\ (body.data.num_scenes.t # "int" \/ body.data.num_scenes.v \notin 3..10)

\* C17: a POST /generate-story whose body has a missing or malformed field
\* is answered with status 400 and an error message, and no exception leaves
\* the route.
C17_MalformedAnswered400 ==
    last.op = "POST /generate-story" /\ Malformed(last.body) =>
        /\ ~last.raised
        /\ last.response.status = 400
        /\ "error" \in DOMAIN last.response.body

(***************************************************************************)
(* Properties of generate_story under a failing model.                     *)
(***************************************************************************)
\* the answer is a failed request, a text that is no JSON once a leading
\* ```json and a trailing ``` are cut off, a JSON value that is no object,
\* or an object with a character or a scene that lacks a required field
FailingAnswer(a) ==
    \/ a.kind = "failure"
    \/ a.open \notin {"", "<fence>json"}
    \/ a.close \notin {"", "<fence>"}
    \/ a.json.kind # "object"
    \/ \E i \in 1..Len(Get(a.json.data, "characters", <<>>)) :
          ~({"name", "description", "visual_description"}
                \subseteq DOMAIN a.json.data.characters[i])
    \/ \E i \in 1..Len(Get(a.json.data, "scenes", <<>>)) :
          ~({"scene_number", "title", "text", "image_prompt"}
                \subseteq DOMAIN a.json.data.scenes[i])

\* C18: when the request to the text model fails, or its answer is no JSON
\* after a leading ```json and a trailing ``` are stripped, or the JSON is no
\* object or holds a character or scene without a required field,
\* generate_story raises, the route answers 500, and the cache is as before:
\* the map, the character index, the objects and the story files are
\* unchanged and no story is stored.
C18_FailedGenerationStoresNothing ==
    [][\A t \in Threads, a \in StoryAnswers :
          generate_story_return(t, a, "ok") /\ FailingAnswer(a) =>
             /\ last'.op = "generate_story"
             /\ last'.raised
             /\ last'.status = 500
             /\ <<stories, characters, heap, disk, uuids>>'
                   = <<stories, characters, heap, disk, uuids>>]_vars

C18_Witness ==
    /\ last.op = "generate_story"
    /\ last.raised
    /\ last.status = 500
    /\ DOMAIN stories # {}
    /\ uuids = 0

(***************************************************************************)
(* Properties of the calls of the external models.                         *)
(***************************************************************************)
\* the threads that enter an operation that calls a model in this step
Starting == {t \in Threads : pc[t] = "idle" /\ pc'[t] # "idle"}

\* C19: every invocation of generate_story, generate_story_choices,
\* generate_scene_from_choice, generate_scene_image and
\* refine_character_image sends at most one request to the external model:
\* the step that starts the invocation sends one, and the step that takes the
\* model's answer, a failure included, ends the invocation and sends none.
C19_OneRequestPerInvocation ==
    [][/\ modelCalls' = modelCalls + Cardinality(Starting)
       /\ \A t \in Threads :
             pc[t] # "idle" /\ pc'[t] # pc[t] =>
                /\ pc'[t] = "idle"
                /\ modelCalls' = modelCalls]_vars

C19_Witness ==
    /\ modelCalls = 2
    /\ \A t \in Threads : pc[t] = "idle"
    /\ last.op = "generate_scene_image"
    /\ last.failure = "model"

(***************************************************************************)
(* Properties of the story identifier.                                     *)
(***************************************************************************)
\* C20: in every reachable state each key of the story map refers to a story
\* whose story_id is that key, and no step of update_character (whatever the
\* update keys), generate_scene_from_choice, generate_scene_image,
\* refine_character_image, store_story or the startup load changes the
\* story_id of a Story object that exists before and after the step.
C20_StoryIdImmutable ==
    /\ [](\A k \in DOMAIN stories : heap[stories[k]].story_id = k)
    /\ [][\A r \in Refs :
             ~IsFree(heap, r) /\ ~IsFree(heap', r) =>
                heap'[r].story_id = heap[r].story_id]_vars

C20_Witness ==
    /\ last.op = "update_character"
    /\ last.result
    /\ \E k \in DOMAIN stories :
          /\ stories[k] = last.ref
          /\ heap[stories[k]].story_id = k
          /\ \E c \in 1..Len(heap[stories[k]].characters) :
                heap[stories[k]].characters[c].name = <<"z">>

(***************************************************************************)
(* Properties of scene generation and character updates.                   *)
(***************************************************************************)
\* the cached stories, the character index and the story folder are the
\* same before and after the step
CacheUntouched ==
    /\ stories' = stories
    /\ characters' = characters
    /\ disk' = disk
    /\ \A k \in DOMAIN stories : heap'[stories[k]] = heap[stories[k]]

\* the answer of the route when generate_scene_from_choice returned None
AnsweredFailedScene ==
    /\ last'.op = "generate_scene_from_choice"
    /\ ~last'.ok
    /\ last'.status = 500
    /\ last'.error = "Failed to generate scene"

FirstNamed(story, name) ==
    IF \E i \in 1..Len(story.characters) : story.characters[i].name = name
    THEN CHOOSE i \in 1..Len(story.characters) :
            /\ story.characters[i].name = name
            /\ \A j \in 1..(i - 1) : story.characters[j].name # name
    ELSE 0

\* the step changed, of the story at ref, nothing but character c, and that
\* one only in the keys of u that are fields of a character
OnlyCharacterChanged(ref, c, u) ==
    /\ \A k \in DOMAIN heap[ref] \ {"characters"} : heap'[ref][k] = heap[ref][k]
    /\ DOMAIN heap'[ref] = DOMAIN heap[ref]
    /\ Len(heap'[ref].characters) = Len(heap[ref].characters)
    /\ \A i \in 1..Len(heap[ref].characters) :
          i # c => heap'[ref].characters[i] = heap[ref].characters[i]
    /\ \A k \in CharacterFields :
          heap'[ref].characters[c][k] =
             IF k \in DOMAIN u THEN u[k] ELSE heap[ref].characters[c][k]
    /\ \A k \in DOMAIN u \ CharacterFields :
          ~hasattr(heap[ref].characters[c], k) => k \notin DOMAIN heap'[ref].characters[c]

\* the story at ref is in the map and in its file as it is in memory
StoredAsInMemory(id, ref) ==
    /\ id \in DOMAIN stories'
    /\ stories'[id] = ref
    /\ id \in DOMAIN disk'
    /\ disk'[id] = FileOf(heap'[ref])

\* C22: update_character returns False and changes nothing when the story is
\* not cached or has no character of exactly that name; otherwise it changes
\* only that character, only in update keys that are attributes of the
\* character, leaves scenes and other characters alone, stores the story and
\* returns True.
C22_UpdateCharacterFrame ==
    [][\A id \in StoryIds, name \in UpdateNames, u \in CharacterUpdates :
         update_character(id, name, u, "ok") =>
            LET ref == get_story(id)
                c == IF ref = 0 THEN 0 ELSE FirstNamed(heap[ref], name)
            IN IF c = 0
               THEN /\ ~last'.raised /\ ~last'.result
                    /\ CacheUntouched
               ELSE /\ ~last'.raised /\ last'.result
                    /\ OnlyCharacterChanged(ref, c, u)
                    /\ StoredAsInMemory(id, ref)]_vars

\* the same for updates that name no method and no special attribute
C22_FrameForFieldUpdates ==
    [][\A id \in StoryIds, name \in UpdateNames,
          u \in {x \in CharacterUpdates : DOMAIN x \cap ClassAttributes = {}} :
         update_character(id, name, u, "ok") =>
            LET ref == get_story(id)
                c == IF ref = 0 THEN 0 ELSE FirstNamed(heap[ref], name)
            IN IF c = 0
               THEN /\ ~last'.raised /\ ~last'.result
                    /\ CacheUntouched
               ELSE /\ ~last'.raised /\ last'.result
                    /\ OnlyCharacterChanged(ref, c, u)
                    /\ (~store_raises(heap[ref]) => StoredAsInMemory(id, ref))]_vars

(***************************************************************************)
(* Properties of generate_story_choices.                                   *)
(***************************************************************************)
\* what generate_story_choices returns for the reply of generate_json
ChoicesFor(r) ==
    IF r.kind = "error" THEN default_choices
    ELSE IF r.kind = "list" THEN r.value
    ELSE <<>>

\* C23: generate_story_choices never raises and never touches the cache; a
\* failed model call or parse gives the four default choices (original,
\* magical, surprise, adventure, in that order), a JSON value that is no list
\* gives the empty list, and a list is returned unchanged.
C23_ChoicesNeverRaise ==
    [][/\ \A t \in Threads, r \in ChoiceReplies :
            generate_story_choices_return(t, r) =>
               /\ ~last'.raised
               /\ last'.choices = ChoicesFor(r)
               /\ CacheUntouched
       /\ \A t \in Threads : generate_story_choices_call(t) => CacheUntouched
       /\ \A t \in Threads, c \in CurrentScenes :
            generate_story_choices_no_dict(t, c) => ~last'.raised /\ CacheUntouched
       /\ [i \in 1..4 |-> default_choices[i].type] =
             <<"original", "magical", "surprise", "adventure">>]_vars

\* the same for the calls whose current scene is a JSON object
C23_ChoicesForDictScenes ==
    [][/\ \A t \in Threads, r \in ChoiceReplies :
            generate_story_choices_return(t, r) =>
               /\ ~last'.raised
               /\ last'.choices = ChoicesFor(r)
               /\ CacheUntouched
       /\ \A t \in Threads : generate_story_choices_call(t) => CacheUntouched
       /\ Len(default_choices) = 4
       /\ [i \in 1..4 |-> default_choices[i].type] =
             <<"original", "magical", "surprise", "adventure">>]_vars

(***************************************************************************)
(* Properties of character refinement.                                     *)
(***************************************************************************)
\* C24: the request refine_character_image sends to the external model
\* holds the descriptive prompt and the raw bytes read from the reference
\* image file.
C24_ReferenceBytesSent ==
    \A t \in Threads :
       pc[t] = "refine_wait" =>
          /\ req[t].sent.contents = req[t].prompt
          /\ "image" \in DOMAIN req[t].sent
          /\ req[t].sent.image = req[t].image_data

\* the request holds the prompt, built from the character's name and visual
\* description
C24_PromptSent ==
    \A t \in Threads :
       pc[t] = "refine_wait" =>
          /\ req[t].sent.contents = req[t].prompt
          /\ req[t].prompt = refine_prompt(heap[req[t].ref].characters[req[t].character])

(***************************************************************************)
(* Properties of deletion among requests in flight.                        *)
(***************************************************************************)
\* C25: a story deleted with result True is in no later state in the story
\* map or in the story folder, unless a new story was created with its id:
\* no step of a request that fetched the story before the delete and
\* answers after it brings the story back.
C25_DeletedStaysDeleted ==
    [][\A id \in deleted :
          (id \in DOMAIN stories' \/ id \in DOMAIN disk') =>
             /\ last'.op = "generate_story"
             /\ ~last'.raised
             /\ last'.story_id = id]_vars

\* the same with no request in flight across the delete: a step of a request
\* that started after the delete does not bring the story back
C25_NoneInFlight ==
    [][\A id \in deleted :
          (\A t \in Threads : "ref" \in DOMAIN req[t] => heap[req[t].ref].story_id # id)
             => (id \notin DOMAIN stories' /\ id \notin DOMAIN disk')]_vars

(***************************************************************************)
(* Properties of the character index.                                      *)
(***************************************************************************)
\* the index keys of the characters of the cached stories
KeysOfCached ==
    UNION {{char_key(id, heap[stories[id]].characters[i].name) :
               i \in 1..Len(heap[stories[id]].characters)} : id \in DOMAIN stories}

\* C26: in every reachable state the key set of the character index is the
\* set of '<story_id>_<name with _ for space>' keys of the characters of the
\* cached stories, and each entry equals that character's current data; so
\* no entry of a deleted story remains, renamed or removed characters
\* included.
C26_IndexConsistent ==
    /\ DOMAIN characters = KeysOfCached
    /\ \A id \in DOMAIN stories :
          \A i \in 1..Len(heap[stories[id]].characters) :
             LET c == heap[stories[id]].characters[i]
             IN characters[char_key(id, c.name)] = Character_to_dict(c)

\* every entry of the index was the data of a character stored under that
\* key: its key is the key of its own name under some story id
C26_EntriesUnderOwnKey ==
    \A k \in DOMAIN characters :
       \E id \in AllIds : k = char_key(id, characters[k].name)

(***************************************************************************)
(* Properties of the scene budget.                                         *)
(***************************************************************************)
\* C27: after any sequence of generate_story and generate_scene_from_choice
\* calls no cached story has more scenes than its total_planned_scenes, and
\* the scenes_remaining a generate_scene_from_choice returned is not
\* negative.
C27_WithinSceneBudget ==
    /\ \A id \in DOMAIN stories :
          Len(heap[stories[id]].scenes) <= heap[stories[id]].total_planned_scenes
    /\ (last.op = "generate_scene_from_choice" /\ last.ok) => last.scenes_remaining >= 0

\* while the story has fewer scenes than planned before the call, the call
\* keeps it within the plan and returns a scenes_remaining that is not
\* negative
C27_WithinBudgetBeforeTheLastScene ==
    [][\A t \in Threads, r \in SceneReplies :
          /\ generate_scene_return(t, r, "ok")
          /\ r.kind = "object"
          /\ Len(heap[req[t].ref].scenes) < heap[req[t].ref].total_planned_scenes
          /\ req[t].current_scene_count = Len(heap[req[t].ref].scenes)
          => /\ Len(heap'[req[t].ref].scenes) <= heap'[req[t].ref].total_planned_scenes
             /\ last'.scenes_remaining >= 0]_vars

(***************************************************************************)
(* Properties of the result of store_story.                                *)
(***************************************************************************)
\* C28: store_story returns True only if the story is in the story map and
\* its file <story_id>.json holds it; when the write of the file fails,
\* store_story returns False.
C28_TrueMeansWritten ==
    [][\A s \in StoryInputs(clock), w \in WriteOutcomes :
          store_story(s, w) =>
             /\ last'.result =>
                   /\ Get(stories', s.story_id, 0) = last'.ref
                   /\ heap'[last'.ref] = s
                   /\ s.story_id \in DOMAIN disk'
                   /\ disk'[s.story_id] = FileOf(s)
             /\ w # "ok" => ~last'.result]_vars

\* store_story returns True with the story in the story map, whatever
\* became of the file
C28_TrueMeansInMemory ==
    [][\A s \in StoryInputs(clock), w \in WriteOutcomes :
          store_story(s, w) =>
             /\ last'.result
             /\ Get(stories', s.story_id, 0) = last'.ref
             /\ heap'[last'.ref] = s
             /\ (w = "ok" => disk'[s.story_id] = FileOf(s))]_vars

(***************************************************************************)
(* Properties of concurrent scene generation.                              *)
(***************************************************************************)
\* C29: when two generate_scene_from_choice requests for one story ran
\* concurrently and both succeeded, then after both have completed the
\* story in memory holds both new scenes (every append added one scene and
\* removed none) and the file <story_id>.json holds the scene list of the
\* story in memory.
C29_ConcurrentScenesBothSaved ==
    /\ []((/\ \A t \in Threads : pc[t] = "idle"
           /\ last.op = "generate_scene_from_choice"
           /\ last.ok
           /\ last.overlapped)
          => /\ last.story_id \in DOMAIN disk
             /\ disk[last.story_id].ok
             /\ disk[last.story_id].data.scenes =
                   Story_to_dict(heap[stories[last.story_id]]).scenes)
    /\ [][\A t \in Threads, r \in SceneReplies :
             scene_append(t, r) /\ r.kind = "object" =>
                /\ Len(heap'[req[t].ref].scenes) = Len(heap[req[t].ref].scenes) + 1
                /\ SubSeq(heap'[req[t].ref].scenes, 1, Len(heap[req[t].ref].scenes))
                      = heap[req[t].ref].scenes]_vars

\* both scenes are in the story in memory, and a request that ran alone
\* leaves the file with the scene list of the story in memory
C29_MemoryHoldsBothScenes ==
    /\ []((/\ \A t \in Threads : pc[t] = "idle"
           /\ last.op = "generate_scene_from_choice"
           /\ last.ok
           /\ ~last.overlapped)
          => /\ disk[last.story_id].ok
             /\ disk[last.story_id].data.scenes =
                   Story_to_dict(heap[stories[last.story_id]]).scenes)
    /\ [][\A t \in Threads, r \in SceneReplies :
             scene_append(t, r) /\ r.kind = "object" =>
                Len(heap'[req[t].ref].scenes) = Len(heap[req[t].ref].scenes) + 1]_vars

(***************************************************************************)
(* Properties of the PDF export.                                           *)
(***************************************************************************)
\* C30: when _export_pdf has returned, with a file name or with None, none
\* of the temporary files temp_img_<i>.png it created is in the output
\* folder.
C30_NoTempImagesLeft ==
    [][\A r \in PdfRequests, f \in PdfFailures :
          export_pdf(r, f) => last'.created \cap output' = {}]_vars

\* an export that returns a file name leaves none of its temporary files
C30_NoTempImagesLeftOnSuccess ==
    [][\A r \in PdfRequests, f \in PdfFailures :
          export_pdf(r, f) /\ last'.status = 200 =>
             /\ last'.created \cap output' = {}
             /\ last'.filename \in output']_vars

====
